---- MODULE Spec2Model ----
(***************************************************************************)
(* A model of the NVMe stress-test report pipeline:                        *)
(*   generate_report.py            NVMeLogParser, get_pcie_info,           *)
(*                                 generate_html_report, main              *)
(*   update_report_with_peak_perf.py  parse_fio_json,                      *)
(*                                 generate_html_report_with_peak, main    *)
(*                                                                         *)
(* Text is modelled structurally.  A log is a sequence of lines; a line is *)
(* a record [k, v, n] where k names the only pattern of the parser the     *)
(* line can match, v is the text a capture group of that pattern returns   *)
(* and n is a number the line carries.  A text value is a sequence of      *)
(* string chunks (<<"Unknown">>, <<"2","0","0","0"," ","MiB/s">>), so that *)
(* formatting, splitting and integer parsing are computed, not assumed.    *)
(***************************************************************************)
EXTENDS Integers, Sequences, FiniteSets, TLC

VARIABLES
    log_files,    \* the nvme*.log files of the log directory, as sorted(glob) lists them
    artifacts,    \* the <drive>_read.json / <drive>_write.json files, by position of the log
    sysfs,        \* the host's current_link_speed / current_link_width pseudo-files
    data,         \* self.data of the NVMeLogParser at hand (NoParser before construction)
    drives_data,  \* the list of device records handed to the renderer
    report,       \* the content of the report file (NoReport when it does not exist)
    pcie,         \* the last value get_pcie_info returned (NoValue before)
    printed,      \* the lines written to standard output, in order
    calls,        \* how many times parse() was called on the parser at hand
    pc,           \* the position of the running program
    layer,        \* which test runner is running: "web", "desktop", or "none"
    active_tests, \* web_app.active_tests: test_id -> the entry api_test_start stored
    workers,      \* the worker threads started so far, one per accepted start
    procs,        \* the child process of each worker, as the operating system sees it
    stops,        \* the api_test_stop requests being served
    gui,          \* the desktop window: buttons, worker_thread, what the GUI thread is in
    queue,        \* the desktop's queued signals, not yet delivered to their slots
    events,       \* what the listener has received of each run, in order
    mounts,       \* /proc/mounts: the mounted partitions of the device, in table order
    requests,     \* the start requests the operator is about to send, in order
    replies       \* how the requests were answered: HTTP responses, message boxes

report_vars == <<log_files, artifacts, sysfs, data, drives_data, report, pcie, printed, calls, pc>>

runner_vars == <<layer, active_tests, workers, procs, stops, gui, queue, events>>

request_vars == <<mounts, requests, replies>>

vars == <<report_vars, runner_vars, request_vars>>

\* no test runner is running: the report programs leave these alone
NoGui ==
    [ start_enabled |-> FALSE, stop_enabled |-> FALSE, worker_thread |-> 0,
      busy |-> "none", status_label |-> "none", timer |-> FALSE,
      test_duration |-> 0, progress_bar |-> 0 ]

RunnerIdle ==
    /\ layer = "none"
    /\ active_tests = <<>>
    /\ workers = <<>>
    /\ procs = <<>>
    /\ stops = <<>>
    /\ gui = NoGui
    /\ queue = <<>>
    /\ events = <<>>
    /\ mounts = <<>>
    /\ requests = <<>>
    /\ replies = <<>>

-----------------------------------------------------------------------------
(* Bounds of the model *)

MaxLines == 3
MaxFiles == 2
MaxDrives == 3
MaxChunks == 4
MaxParses == 2
MaxClock == 2
\* lines of a log of temperature readings
MaxSensorLines == 4

-----------------------------------------------------------------------------
(* Generic helpers *)

BoundedSeq(S, n) == UNION {[1..k -> S] : k \in 0..n}

Min(S) == CHOOSE x \in S : \A y \in S : x <= y

Max(S) == CHOOSE x \in S : \A y \in S : y <= x

\* Python's max(a, b) on integers
PyMax(a, b) == IF a >= b THEN a ELSE b

SeqSum(s) ==
    LET RECURSIVE Go(_)
        Go(i) == IF i = 0 THEN 0 ELSE s[i] + Go(i - 1)
    IN Go(Len(s))

NoValue == [none |-> TRUE]

-----------------------------------------------------------------------------
(* Text values *)

Unknown == <<"Unknown">>
NA == <<"N/A">>
Digit == {"0", "1", "2", "3", "4", "5", "6", "7", "8", "9"}

DigitVal(c) ==
    CASE c = "0" -> 0 [] c = "1" -> 1 [] c = "2" -> 2 [] c = "3" -> 3 [] c = "4" -> 4
      [] c = "5" -> 5 [] c = "6" -> 6 [] c = "7" -> 7 [] c = "8" -> 8 [] c = "9" -> 9

DigitChar(d) ==
    CASE d = 0 -> "0" [] d = 1 -> "1" [] d = 2 -> "2" [] d = 3 -> "3" [] d = 4 -> "4"
      [] d = 5 -> "5" [] d = 6 -> "6" [] d = 7 -> "7" [] d = 8 -> "8" [] d = 9 -> "9"

-----------------------------------------------------------------------------
(* Log text: the lines the parser's patterns can match *)

Line(k, v, n) == [k |-> k, v |-> v, n |-> n]

\* "... after test ..." : the marker content.split('after test') splits on
Marker == Line("after test", <<>>, 0)
\* a line none of the patterns matches
Other == Line("other", <<>>, 0)

IdentityLines ==
    { Line("Model Number", <<"Samsung 990 PRO">>, 0),
      Line("Serial Number", <<"S6Z1NJ0W">>, 0),
      Line("Firmware Version", <<"4B2QJXD7">>, 0),
      Line("Total NVM Capacity", <<"2.00 TB">>, 0),
      Line("NVMe Version", <<"2.0">>, 0),
      Line("SMART overall-health", <<"PASSED">>, 0),
      Line("SMART overall-health", <<"FAILED!">>, 0),
      Line("Percentage Used", <<"3">>, 0),
      Line("Error Information Log Entries", <<>>, 0),
      Line("Error Information Log Entries", <<>>, 2) }

ThermalLines ==
    { Line("Temperature", <<"40">>, 0),
      Line("Temperature", <<"55">>, 0),
      Line("Temperature Sensor", <<"50">>, 1),
      Line("Temperature Sensor", <<"60">>, 2),
      Line("Data Units Read", <<"1.23 TB">>, 0),
      Line("Data Units Written", <<"4.56 TB">>, 0),
      Marker, Other }

\* fio: "Run status group N", "READ: bw=<n>MiB/s (...), io=...(",
\* "WRITE: bw=<n>MiB/s", a WRITE line in GiB/s (which the pattern does not
\* match), "read: IOPS=<v>,", "write: IOPS=<v>,", a job name line
FioLines ==
    { Line("Run status group", <<>>, 0),
      Line("Run status group", <<>>, 1),
      Line("READ", <<"3700">>, 0),
      Line("WRITE", <<"8300">>, 0),
      Line("WRITE", <<"9100">>, 0),
      Line("WRITE: bw=GiB/s", <<"12.1">>, 0),
      Line("read: IOPS", <<"9", "4", "7", "k">>, 0),
      Line("write: IOPS", <<"1", "2", ".", "3", "k">>, 0),
      Line("ai_model_checkpoint", <<>>, 0) }

\* the texts a log file can hold: lines of one family, in any order
Contents ==
    BoundedSeq(IdentityLines, MaxLines) \cup BoundedSeq(ThermalLines, MaxLines)
        \cup BoundedSeq(FioLines, MaxLines)

\* a file of the log directory: its stem (the character codes that follow
\* "nvme"), whether open()/read() succeed, and its text
File(stem, readable, content) ==
    [stem |-> stem, readable |-> readable, content |-> content]

-----------------------------------------------------------------------------
(* re.search / re.findall / str.split on that text *)

\* the first of the positions P where a pattern matches, 0 when there is none
FirstIn(P) == IF P = {} THEN 0 ELSE Min(P)

\* re.search(<pattern of kind k>, s): index of the first matching line
Search(s, k) == FirstIn({i \in 1..Len(s) : s[i].k = k})

\* content.split('after test'): the number of pieces
SplitCount(s) == Cardinality({i \in 1..Len(s) : s[i] = Marker}) + 1

\* content.split('after test')[-1]: the text after the last marker
\* (the whole text when there is no marker)
LastSectionFromFirstMarker(s) ==
    LET m == Search(s, "after test")
    IN IF m = 0 THEN s ELSE SubSeq(s, m + 1, Len(s))

LastSection(s) ==
    LET ms == {i \in 1..Len(s) : s[i] = Marker}
    IN IF ms = {} THEN s ELSE SubSeq(s, Max(ms) + 1, Len(s))

-----------------------------------------------------------------------------
(* NVMeLogParser *)

NoParser == [none |-> TRUE]

\* the record the documentation of __init__ gives a parser of the file `stem`
DocumentedDefaults(stem) ==
    [ drive_name |-> stem,
      model |-> Unknown, serial |-> Unknown, firmware |-> Unknown,
      capacity |-> Unknown, nvme_version |-> Unknown,
      pci_gen |-> Unknown, health_status |-> Unknown,
      temp_before |-> Unknown, temp_after |-> Unknown,
      temp_sensors_after |-> <<>>, percentage_used |-> Unknown,
      data_read |-> Unknown, data_written |-> Unknown,
      read_iops |-> Unknown, read_bw |-> Unknown,
      write_iops |-> Unknown, write_bw |-> Unknown,
      checkpoint_write_iops |-> Unknown,
      checkpoint_write_bw |-> Unknown, errors |-> 0,
      test_duration |-> <<"10 minutes">>,
      workload |-> <<"AI Data Load & Model Checkpoint">> ]

\* __init__ with the dictionary shared by all parsers (a class attribute):
\* a new parser starts from what the previous one left
NewParserDataShared(log_file) ==
    IF data = NoParser THEN DocumentedDefaults(log_file.stem)
    ELSE [data EXCEPT !.drive_name = log_file.stem]

\* __init__: self.data
NewParserData(log_file) ==
    [ drive_name |-> log_file.stem,
      model |-> Unknown, serial |-> Unknown, firmware |-> Unknown,
      capacity |-> Unknown, nvme_version |-> Unknown, pci_gen |-> Unknown,
      health_status |-> Unknown,
      temp_before |-> Unknown, temp_after |-> Unknown,
      temp_sensors_after |-> <<>>,
      percentage_used |-> Unknown,
      data_read |-> Unknown, data_written |-> Unknown,
      read_iops |-> Unknown, read_bw |-> Unknown,
      write_iops |-> Unknown, write_bw |-> Unknown,
      checkpoint_write_iops |-> Unknown, checkpoint_write_bw |-> Unknown,
      errors |-> 0,
      test_duration |-> <<"10 minutes">>,
      workload |-> <<"AI Data Load & Model Checkpoint">> ]

\* Group without the "if m:" guard: a missing match overwrites the field
GroupUnguarded(s, k, old) == IF Search(s, k) = 0 THEN <<"None">> ELSE s[Search(s, k)].v

\* m = re.search(k, s); "if m: field = m.group(..)": the group, or the old value
Group(s, k, old) == IF Search(s, k) = 0 THEN old ELSE s[Search(s, k)].v

\* the sensor readings listed by sensor number instead of by position
SensorPairsByNumber(s) ==
    LET hits == SelectSeq(s, LAMBDA l : l.k = "Temperature Sensor" /\ l.n = 1)
                  \o SelectSeq(s, LAMBDA l : l.k = "Temperature Sensor" /\ l.n # 1)
    IN [i \in 1..Len(hits) |-> << <<"Sensor ", hits[i].n>>, hits[i].v >>]

\* re.findall(r'Temperature Sensor (\d+):\s+(\d+)\s+Celsius', s) turned into
\* [(f"Sensor {num}", temp), ...]
SensorPairs(s) ==
    LET hits == SelectSeq(s, LAMBDA l : l.k = "Temperature Sensor")
    IN [i \in 1..Len(hits) |-> << <<"Sensor ", hits[i].n>>, hits[i].v >>]

\* "self.data['temp_sensors_after'] = [...]": the list is assigned; the variant
\* extends the list that is there
SensorListExtended(s, old) == old \o SensorPairs(s)

SensorList(s, old) == SensorPairs(s)

\* r'Run status group <g>.*?<op>:\s+bw=(\d+)MiB/s' with re.DOTALL: the first
\* <op> line after the first "Run status group <g>" line; 0 when none
GroupBwIdx(s, g, op) ==
    LET h == FirstIn({i \in 1..Len(s) : s[i].k = "Run status group" /\ s[i].n = g})
    IN IF h = 0 THEN 0
       ELSE LET hit == {i \in (h + 1)..Len(s) : s[i].k = op}
            IN IF hit = {} THEN 0 ELSE Min(hit)

\* f"{m.group(1)} MiB/s"
BwText(digits) == digits \o <<" ", "MiB/s">>

GroupBw(s, g, op, old) ==
    IF GroupBwIdx(s, g, op) = 0 THEN old ELSE BwText(s[GroupBwIdx(s, g, op)].v)

\* (\d+) at the start of v: the longest run of digits
LeadingDigits(v) ==
    LET stop == FirstIn({i \in 1..Len(v) : v[i] \notin Digit})
    IN IF stop = 0 THEN v ELSE SubSeq(v, 1, stop - 1)

\* r'ai_model_checkpoint.*?write: IOPS=(\d+)' with re.DOTALL
CheckpointIops(s, old) ==
    LET h == Search(s, "ai_model_checkpoint")
        hit == IF h = 0 THEN {}
               ELSE {i \in (h + 1)..Len(s) :
                        s[i].k = "write: IOPS" /\ LeadingDigits(s[i].v) # <<>>}
    IN IF hit = {} THEN old ELSE LeadingDigits(s[Min(hit)].v)

\* the body of parse()'s try block, on the text read from the file
ParseContent(d, content) ==
    LET after == LastSection(content)
        post == SplitCount(content) > 1
    IN [ d EXCEPT
           !.model = Group(content, "Model Number", @),
           !.serial = Group(content, "Serial Number", @),
           !.firmware = Group(content, "Firmware Version", @),
           !.capacity = Group(content, "Total NVM Capacity", @),
           !.nvme_version = Group(content, "NVMe Version", @),
           !.health_status = Group(content, "SMART overall-health", @),
           !.temp_before = Group(content, "Temperature", @),
           !.percentage_used = Group(content, "Percentage Used", @),
           !.temp_after = IF post THEN Group(after, "Temperature", @) ELSE @,
           !.temp_sensors_after = IF post THEN SensorList(after, @) ELSE @,
           !.data_read = IF post THEN Group(after, "Data Units Read", @) ELSE @,
           !.data_written = IF post THEN Group(after, "Data Units Written", @) ELSE @,
           !.read_bw = GroupBw(content, 0, "READ", @),
           !.read_iops = Group(content, "read: IOPS", @),
           !.write_bw = GroupBw(content, 0, "WRITE", @),
           !.write_iops = Group(content, "write: IOPS", @),
           !.checkpoint_write_bw = GroupBw(content, 1, "WRITE", @),
           !.checkpoint_write_iops = CheckpointIops(content, @),
           !.errors = IF Search(content, "Error Information Log Entries") = 0 THEN @
                      ELSE content[Search(content, "Error Information Log Entries")].n ]

\* parse(): open and read the file, fill self.data; any exception is caught
\* and printed; self.data is returned either way
ParseData(d, log_file) ==
    IF log_file.readable THEN ParseContent(d, log_file.content) ELSE d

ParsePrinted(log_file) ==
    IF log_file.readable THEN <<>> ELSE << <<"Error parsing", log_file.stem>> >>

-----------------------------------------------------------------------------
(* One parser on one log file *)

NoReport == [none |-> TRUE]
NoArtifacts == <<>>
NoSysfs == [none |-> TRUE]

\* "0n1": the stem of nvme0n1.log after "nvme"
Stem0 == <<48, 110, 49>>

ParserInit ==
    /\ \E readable \in BOOLEAN, content \in Contents :
          /\ readable \/ content = <<>>
          /\ log_files = << File(Stem0, readable, content) >>
    /\ artifacts = NoArtifacts
    /\ sysfs = NoSysfs
    /\ data = NoParser
    /\ drives_data = <<>>
    /\ report = NoReport
    /\ pcie = NoValue
    /\ printed = <<>>
    /\ calls = 0
    /\ pc = "new"
    /\ RunnerIdle

\* parser = NVMeLogParser(log_file)
Construct ==
    /\ pc = "new"
    /\ data' = NewParserData(log_files[1])
    /\ pc' = "parser"
    /\ UNCHANGED <<log_files, artifacts, sysfs, drives_data, report, pcie, printed, calls>>
    /\ UNCHANGED runner_vars
    /\ UNCHANGED request_vars

\* parser = NVMeLogParser(log_file) once more: a fresh parser of the same file
ConstructAgain ==
    /\ pc = "parser"
    /\ calls > 0
    /\ calls < MaxParses
    /\ data' = NewParserData(log_files[1])
    /\ pc' = "fresh"
    /\ UNCHANGED <<log_files, artifacts, sysfs, drives_data, report, pcie, printed, calls>>
    /\ UNCHANGED runner_vars
    /\ UNCHANGED request_vars

\* record = parser.parse(): drives_data keeps the records the calls returned
CallParse ==
    /\ pc \in {"parser", "fresh"}
    /\ calls < MaxParses
    /\ data' = ParseData(data, log_files[1])
    /\ drives_data' = Append(drives_data, data')
    /\ printed' = printed \o ParsePrinted(log_files[1])
    /\ calls' = calls + 1
    /\ pc' = "parser"
    /\ UNCHANGED <<log_files, artifacts, sysfs, report, pcie>>
    /\ UNCHANGED runner_vars
    /\ UNCHANGED request_vars

ParserNext == Construct \/ ConstructAgain \/ CallParse

SpecParser == ParserInit /\ [][ParserNext]_vars

-----------------------------------------------------------------------------
(* Claims about NVMeLogParser.parse (SpecParser) *)

Parsed == pc = "parser" /\ calls > 0
ParsedText == Parsed /\ log_files[1].readable
TheText == log_files[1].content

KindAt(k) == {i \in 1..Len(TheText) : TheText[i].k = k}
MarkerAt == KindAt("after test")
\* the positions after the last 'after test' marker; none when there is no marker
PostTest == IF MarkerAt = {} THEN {} ELSE (Max(MarkerAt) + 1)..Len(TheText)
\* the positions before the last marker; the whole text when there is no marker
PreTest == IF MarkerAt = {} THEN 1..Len(TheText) ELSE 1..(Max(MarkerAt) - 1)

\* the capture of the first line of kind k among the positions P, or dflt
FirstOf(k, P, dflt) ==
    IF KindAt(k) \cap P = {} THEN dflt ELSE TheText[Min(KindAt(k) \cap P)].v

\* C2 as stated: temp_after is the first 'Temperature: N Celsius' after the last
\* 'after test' marker ('Unknown' when there is no marker or no temperature
\* after it) and temp_before is the temperature of the pre-test section.
C2_Original ==
    ParsedText =>
        /\ data.temp_after = FirstOf("Temperature", PostTest, Unknown)
        /\ data.temp_before = FirstOf("Temperature", PreTest, Unknown)

\* C2 amended: temp_after is the first 'Temperature: N Celsius' after the last
\* 'after test' marker, 'Unknown' when there is no marker or no temperature
\* after it; temp_before is the first match of the whole text, which is the
\* pre-test one whenever the pre-test section has one (40 and 55 for a
\* pre-test 40 and a post-test 55).
C2_TempScoping ==
    ParsedText =>
        /\ data.temp_after = FirstOf("Temperature", PostTest, Unknown)
        /\ data.temp_before = FirstOf("Temperature", 1..Len(TheText), Unknown)
        /\ (KindAt("Temperature") \cap PreTest # {}
              => data.temp_before = FirstOf("Temperature", PreTest, Unknown))

C2_Witness ==
    /\ ParsedText
    /\ TheText = << Line("Temperature", <<"40">>, 0), Marker,
                    Line("Temperature", <<"55">>, 0) >>
    /\ data.temp_before = <<"40">>
    /\ data.temp_after = <<"55">>

\* the fields filled from one pattern over the whole text, with their pattern
WholeTextField ==
    [ model |-> "Model Number", serial |-> "Serial Number",
      firmware |-> "Firmware Version", capacity |-> "Total NVM Capacity",
      nvme_version |-> "NVMe Version", health_status |-> "SMART overall-health",
      temp_before |-> "Temperature", percentage_used |-> "Percentage Used",
      read_iops |-> "read: IOPS", write_iops |-> "write: IOPS" ]

\* the fields filled from one pattern over the post-test section
PostTestField ==
    [ temp_after |-> "Temperature", data_read |-> "Data Units Read",
      data_written |-> "Data Units Written" ]

\* some <op> line follows some "Run status group g" line
GroupHasOp(g, op) ==
    \E h \in KindAt("Run status group"), i \in KindAt(op) :
        TheText[h].n = g /\ h < i

CheckpointHasIops ==
    \E h \in KindAt("ai_model_checkpoint"), i \in KindAt("write: IOPS") :
        h < i /\ TheText[i].v # <<>> /\ TheText[i].v[1] \in Digit

\* C3: parse() of an empty text returns the record __init__ built, every field
\* at its default, and for any text a field whose pattern has no match keeps
\* its default ('Unknown', the empty sensor list, errors 0).
C3_MissingFieldsKeepDefault ==
    ParsedText =>
        /\ TheText = <<>> => data = DocumentedDefaults(log_files[1].stem)
        /\ \A f \in DOMAIN WholeTextField :
              KindAt(WholeTextField[f]) = {} => data[f] = Unknown
        /\ \A f \in DOMAIN PostTestField :
              KindAt(PostTestField[f]) \cap PostTest = {} => data[f] = Unknown
        /\ KindAt("Temperature Sensor") \cap PostTest = {}
              => data.temp_sensors_after = <<>>
        /\ ~GroupHasOp(0, "READ") => data.read_bw = Unknown
        /\ ~GroupHasOp(0, "WRITE") => data.write_bw = Unknown
        /\ ~GroupHasOp(1, "WRITE") => data.checkpoint_write_bw = Unknown
        /\ ~CheckpointHasIops => data.checkpoint_write_iops = Unknown
        /\ KindAt("Error Information Log Entries") = {} => data.errors = 0
        /\ data.pci_gen = Unknown
        /\ data.drive_name = log_files[1].stem

C3_Witness ==
    /\ ParsedText
    /\ TheText = <<>>
    /\ data.model = Unknown
    /\ data.errors = 0
    /\ printed = <<>>

\* C18: every parse() of the same file content returns the same record, on the
\* parser that already parsed it and on a fresh one: the record the first call
\* returned, which is the parser's record after every call, the sensor list
\* included (one pair per sensor line after the marker, however many calls).
C18_ParseIdempotent ==
    /\ \A i \in 1..Len(drives_data) : drives_data[i] = drives_data[1]
    /\ Len(drives_data) = calls
    /\ Parsed => /\ data = drives_data[1]
                 /\ Len(data.temp_sensors_after)
                       = Cardinality(KindAt("Temperature Sensor") \cap PostTest)

C18_Witness ==
    /\ Parsed
    /\ calls = 2
    /\ TheText = << Marker, Line("Temperature Sensor", <<"60">>, 2),
                    Line("Temperature Sensor", <<"50">>, 1) >>
    /\ drives_data[1].temp_sensors_after
          = << << <<"Sensor ", 2>>, <<"60">> >>, << <<"Sensor ", 1>>, <<"50">> >> >>
    /\ drives_data[2] = drives_data[1]

\* the "Run status group" line a position stands under (0: none), and the
\* positions that stand under a header of group g
HeaderOf(i) == Max({0} \cup {h \in KindAt("Run status group") : h < i})

GroupSection(g) ==
    {i \in 1..Len(TheText) : HeaderOf(i) # 0 /\ TheText[HeaderOf(i)].n = g}

\* the bandwidth of the first <op> line of the section of group g
SectionBw(g, op) ==
    IF KindAt(op) \cap GroupSection(g) = {} THEN Unknown
    ELSE BwText(TheText[Min(KindAt(op) \cap GroupSection(g))].v)

\* C19: read_bw and write_bw come from the READ and the WRITE line of the
\* 'Run status group 0' section, checkpoint_write_bw from the WRITE line of
\* the 'Run status group 1' section; a group without such a line leaves its
\* field 'Unknown', whatever the sections after it hold.
C19_GroupBandwidthScoped ==
    ParsedText =>
        /\ data.read_bw = SectionBw(0, "READ")
        /\ data.write_bw = SectionBw(0, "WRITE")
        /\ data.checkpoint_write_bw = SectionBw(1, "WRITE")

\* the text of the first <k> line among the positions P, 'Unknown' when none
LineText(P, k) ==
    IF KindAt(k) \cap P = {} THEN Unknown
    ELSE TheText[Min(KindAt(k) \cap P)].v

\* the positions after the first job line of the checkpoint workload
AfterCheckpointJob ==
    IF KindAt("ai_model_checkpoint") = {} THEN {}
    ELSE (Min(KindAt("ai_model_checkpoint")) + 1)..Len(TheText)

\* C21: every IOPS field is the display text of its detail line as it
\* stands, decimal part and k/M suffix included: read_iops of the first
\* "read: IOPS" line, write_iops of the first "write: IOPS" line, the
\* checkpoint write IOPS of the first "write: IOPS" line after the
\* checkpoint job line.
C21_IopsVerbatim ==
    ParsedText =>
        /\ data.read_iops = LineText(1..Len(TheText), "read: IOPS")
        /\ data.write_iops = LineText(1..Len(TheText), "write: IOPS")
        /\ data.checkpoint_write_iops = LineText(AfterCheckpointJob, "write: IOPS")

-----------------------------------------------------------------------------
(* get_pcie_info *)

\* the pieces link-speed strings are made of
SpeedChunks == {"1", "2", "3", "6", "8", ".0", " GT/s", " PCIe"}

\* `pat in text` of Python: pat occurs in text as a contiguous piece
Contains(text, pat) ==
    \E i \in 0..(Len(text) - Len(pat)) : SubSeq(text, i + 1, i + Len(pat)) = pat

\* the host's pseudo-files: whether /bin/sh can be run at all, and for each of
\* current_link_speed / current_link_width whether `cat` can read it and the
\* first line it holds
Sysfs(shell, speed_ok, speed, width_ok, width) ==
    [ shell |-> shell, speed_ok |-> speed_ok, speed |-> speed,
      width_ok |-> width_ok, width |-> width ]

\* subprocess.check_output("cat <file> 2>/dev/null | head -1", shell=True)
\* .decode().strip(): the pipeline's status is head's, so an unreadable file
\* gives the empty string and no exception
CatHead(ok, text) == IF ok THEN text ELSE <<>>

\* the if/elif chain that picks pcie_gen; the variant forgets the forms
\* without ".0"
PcieGenDottedOnly(speed) ==
    IF Contains(speed, <<"3", "2", ".0", " GT/s">>) THEN <<"PCIe 5.0">>
    ELSE IF Contains(speed, <<"1", "6", ".0", " GT/s">>) THEN <<"PCIe 4.0">>
    ELSE IF Contains(speed, <<"8", ".0", " GT/s">>) THEN <<"PCIe 3.0">>
    ELSE Unknown

PcieGen(speed) ==
    IF \/ Contains(speed, <<"3", "2", ".0", " GT/s">>)
       \/ Contains(speed, <<"3", "2", " GT/s">>)
    THEN <<"PCIe 5.0">>
    ELSE IF \/ Contains(speed, <<"1", "6", ".0", " GT/s">>)
            \/ Contains(speed, <<"1", "6", " GT/s">>)
    THEN <<"PCIe 4.0">>
    ELSE IF \/ Contains(speed, <<"8", ".0", " GT/s">>)
            \/ Contains(speed, <<"8", " GT/s">>)
    THEN <<"PCIe 3.0">>
    ELSE Unknown

\* get_pcie_info(): (f"{pcie_gen} x{width}", speed), or ("Unknown", "Unknown")
\* when anything in the try block raised
GetPcieInfo(fs) ==
    IF ~fs.shell THEN <<Unknown, Unknown>>
    ELSE LET speed == CatHead(fs.speed_ok, fs.speed)
             width == CatHead(fs.width_ok, fs.width)
         IN << PcieGen(speed) \o <<" x">> \o width, speed >>

PcieSysfs ==
    { Sysfs(FALSE, FALSE, <<>>, FALSE, <<>>) }
      \cup { Sysfs(TRUE, so, sp, wo, w) :
               so \in BOOLEAN, sp \in BoundedSeq(SpeedChunks, MaxChunks),
               wo \in BOOLEAN, w \in {<<>>, <<"4">>} }

PcieInit ==
    /\ sysfs \in PcieSysfs
    /\ sysfs.speed_ok \/ sysfs.speed = <<>>
    /\ sysfs.width_ok <=> sysfs.width # <<>>
    /\ log_files = <<>>
    /\ artifacts = NoArtifacts
    /\ data = NoParser
    /\ drives_data = <<>>
    /\ report = NoReport
    /\ pcie = NoValue
    /\ printed = <<>>
    /\ calls = 0
    /\ pc = "query"
    /\ RunnerIdle

\* pcie_info, pcie_speed = get_pcie_info()
QueryPcie ==
    /\ pc = "query"
    /\ pcie' = GetPcieInfo(sysfs)
    /\ pc' = "queried"
    /\ UNCHANGED <<log_files, artifacts, sysfs, data, drives_data, report, printed, calls>>
    /\ UNCHANGED runner_vars
    /\ UNCHANGED request_vars

PcieNext == QueryPcie

SpecPcie == PcieInit /\ [][PcieNext]_vars

-----------------------------------------------------------------------------
(* Claims about get_pcie_info (SpecPcie) *)

Queried == pc = "queried"

S32d == <<"3", "2", ".0", " GT/s">>
S32 == <<"3", "2", " GT/s">>
S16d == <<"1", "6", ".0", " GT/s">>
S16 == <<"1", "6", " GT/s">>
S8d == <<"8", ".0", " GT/s">>
S8 == <<"8", " GT/s">>

\* the label get_pcie_info paired with the lane width, for a query that ran
LabelIs(gen) == pcie[1] = <<gen, " x">> \o sysfs.width

C9_QueryFailureUnknown ==
    (Queried /\ (~sysfs.shell \/ ~sysfs.speed_ok \/ ~sysfs.width_ok))
        => pcie = <<Unknown, Unknown>>

-----------------------------------------------------------------------------
(* Strings with character-level operations *)

\* Python's a < b on strings given as character codes
StrLess(a, b) ==
    \E k \in 1..(Len(b)) :
        /\ \A j \in 1..(k - 1) : j <= Len(a) /\ a[j] = b[j]
        /\ k - 1 <= Len(a)
        /\ (k > Len(a) \/ a[k] < b[k])

\* str.upper() on character codes
Upper(a) == [i \in 1..Len(a) |-> IF a[i] \in 97..122 THEN a[i] - 32 ELSE a[i]]

\* str(n) for n >= 0: the decimal digits
IntToDigits(n) ==
    LET RECURSIVE Go(_)
        Go(m) == IF m < 10 THEN <<DigitChar(m)>>
                 ELSE Append(Go(m \div 10), DigitChar(m % 10))
    IN Go(n)

\* int(digits)
DigitsToInt(ds) ==
    LET RECURSIVE Go(_)
        Go(i) == IF i = 0 THEN 0 ELSE 10 * Go(i - 1) + DigitVal(ds[i])
    IN Go(Len(ds))

\* text.split()[0]: the piece before the first blank
SplitFirst(text) ==
    LET blank == FirstIn({i \in 1..Len(text) : text[i] = " "})
    IN IF blank = 0 THEN text ELSE SubSeq(text, 1, blank - 1)

\* f"{n} MiB/s"
PeakText(n) == IntToDigits(n) \o <<" ", "MiB/s">>

\* d.get(key, dflt)
Get(d, key, dflt) == IF key \in DOMAIN d THEN d[key] ELSE dflt

-----------------------------------------------------------------------------
(* generate_html_report and generate_html_report_with_peak *)

Passed == <<"PASSED">>

\* sorted(..., key=...) inserts each element after the elements that are not
\* greater; the variant puts it before its equals
InsertByNameBeforeEquals(sorted, x) ==
    LET n == Cardinality({i \in 1..Len(sorted) :
                             StrLess(sorted[i].drive_name, x.drive_name)})
    IN SubSeq(sorted, 1, n) \o <<x>> \o SubSeq(sorted, n + 1, Len(sorted))

InsertByName(sorted, x) ==
    LET n == Cardinality({i \in 1..Len(sorted) :
                             ~StrLess(x.drive_name, sorted[i].drive_name)})
    IN SubSeq(sorted, 1, n) \o <<x>> \o SubSeq(sorted, n + 1, Len(sorted))

\* sorted(drives_data, key=lambda x: x['drive_name']): a new list, stably sorted
SortedByName(dd) ==
    LET RECURSIVE Go(_)
        Go(i) == IF i = 0 THEN <<>> ELSE InsertByName(Go(i - 1), dd[i])
    IN Go(Len(dd))

\* passed_count of generate_html_report; the variant looks at the health only
PassedCountHealthOnly(dd) ==
    Cardinality({i \in 1..Len(dd) : dd[i].health_status = Passed})

PassedCount(dd) ==
    Cardinality({i \in 1..Len(dd) : dd[i].health_status = Passed /\ dd[i].errors = 0})

\* passed_count of generate_html_report_with_peak
PeakPassedCount(dd) ==
    Cardinality({i \in 1..Len(dd) : dd[i].health_status = Passed /\ dd[i].errors = 0})

\* status_class and status_text of a card, plain report
StatusClass(drive) ==
    IF drive.health_status = Passed /\ drive.errors = 0
    THEN "status-passed" ELSE "status-failed"

StatusText(drive) ==
    IF drive.health_status = Passed /\ drive.errors = 0
    THEN <<"PASSED", " ", "U+2713">> ELSE <<"CHECK">>

\* status_class and status_text of a card, peak report
PeakStatusClass(drive) ==
    IF drive.health_status = Passed /\ drive.errors = 0
    THEN "status-passed" ELSE "status-failed"

PeakStatusText(drive) ==
    IF drive.health_status = Passed /\ drive.errors = 0
    THEN <<"PASSED", " ", "U+2713">> ELSE <<"CHECK">>

\* the temperature grid of a card: before, after, then every sensor
TempGrid(drive) ==
    << << <<"Before Test">>, drive.temp_before >>,
       << <<"After Test">>, drive.temp_after >> >> \o drive.temp_sensors_after

\* one drive card of the plain report: what the template prints, in `drive`
\* the record the loop was at
Card(drive) ==
    [ drive |-> drive,
      title |-> Upper(drive.drive_name),
      status_class |-> StatusClass(drive),
      status_text |-> StatusText(drive),
      model |-> drive.model, serial |-> drive.serial,
      capacity |-> drive.capacity, firmware |-> drive.firmware,
      nvme_version |-> drive.nvme_version,
      health_status |-> drive.health_status,
      percentage_used |-> drive.percentage_used,
      errors |-> drive.errors,
      read_bw |-> drive.read_bw, read_iops |-> drive.read_iops,
      write_bw |-> drive.write_bw, write_iops |-> drive.write_iops,
      data_read |-> drive.data_read, data_written |-> drive.data_written,
      temps |-> TempGrid(drive) ]

\* one drive card of the peak report
PeakCard(drive) ==
    [ drive |-> drive,
      title |-> Upper(drive.drive_name),
      status_class |-> PeakStatusClass(drive),
      status_text |-> PeakStatusText(drive),
      model |-> drive.model, serial |-> drive.serial,
      capacity |-> drive.capacity, firmware |-> drive.firmware,
      nvme_version |-> drive.nvme_version,
      health_status |-> drive.health_status,
      percentage_used |-> drive.percentage_used,
      errors |-> drive.errors,
      peak_read_bw |-> Get(drive, "peak_read_bw", NA),
      peak_write_bw |-> Get(drive, "peak_write_bw", NA),
      read_bw |-> drive.read_bw, read_iops |-> drive.read_iops,
      write_bw |-> drive.write_bw, write_iops |-> drive.write_iops,
      data_read |-> drive.data_read, data_written |-> drive.data_written,
      temps |-> TempGrid(drive) ]

\* [int(d.get(key, '0').split()[0]) for d in drives_data
\*     if d.get(key, 'N/A') != 'N/A']
PeakValues(dd, key) ==
    LET have == SelectSeq(dd, LAMBDA d : Get(d, key, NA) # NA)
    IN [i \in 1..Len(have) |-> DigitsToInt(SplitFirst(Get(have[i], key, <<"0">>)))]

\* sum(...) / max(count, 1), kept as the fraction num/den; the variant divides
\* by the number of all devices
AvgPeakOverAll(dd, key) ==
    [num |-> SeqSum(PeakValues(dd, key)), den |-> PyMax(Len(dd), 1)]

AvgPeak(dd, key) ==
    [num |-> SeqSum(PeakValues(dd, key)), den |-> PyMax(Len(PeakValues(dd, key)), 1)]

\* f"{avg:.0f}": the fraction rounded to an integer, halves to even
FormatRounded(avg) ==
    LET q == avg.num \div avg.den
        r == avg.num % avg.den
    IN IF 2 * r < avg.den THEN q
       ELSE IF 2 * r > avg.den THEN q + 1
       ELSE IF q % 2 = 0 THEN q ELSE q + 1

\* datetime.now().strftime("%Y-%m-%d %H:%M:%S"): the seconds the clock can show
Clock == 1..MaxClock

\* the generator appending its cards to the document it finds
GenerateHtmlReportAppending(dd, info, now) ==
    [ kind |-> "plain",
      current_time |-> now,
      total_count |-> Len(dd),
      passed_count |-> PassedCount(dd),
      pcie_info |-> info[1], pcie_speed |-> info[2],
      cards |-> (IF "cards" \in DOMAIN report /\ report.kind = "plain"
                 THEN report.cards ELSE <<>>)
                   \o [i \in 1..Len(dd) |-> Card(SortedByName(dd)[i])],
      footer_all_passed |-> TRUE ]

\* the document generate_html_report writes
GenerateHtmlReport(dd, info, now) ==
    [ kind |-> "plain",
      current_time |-> now,
      total_count |-> Len(dd),
      passed_count |-> PassedCount(dd),
      pcie_info |-> info[1], pcie_speed |-> info[2],
      cards |-> [i \in 1..Len(dd) |-> Card(SortedByName(dd)[i])],
      footer_all_passed |-> TRUE ]

\* the document generate_html_report_with_peak writes
GenerateHtmlReportWithPeak(dd, info, now) ==
    [ kind |-> "peak",
      current_time |-> now,
      total_count |-> Len(dd),
      passed_count |-> PeakPassedCount(dd),
      pcie_info |-> info[1], pcie_speed |-> info[2],
      cards |-> [i \in 1..Len(dd) |-> PeakCard(SortedByName(dd)[i])],
      avg_peak_read |-> AvgPeak(dd, "peak_read_bw"),
      avg_peak_write |-> AvgPeak(dd, "peak_write_bw"),
      avg_peak_read_text |-> FormatRounded(AvgPeak(dd, "peak_read_bw")),
      avg_peak_write_text |-> FormatRounded(AvgPeak(dd, "peak_write_bw")),
      footer_all_passed |-> TRUE ]

\* "1n1", "10n1": further stems
Stem1 == <<49, 110, 49>>
Stem10 == <<49, 48, 110, 49>>
Stems == {Stem0, Stem1, Stem10}

\* records with the names, health values and error counts a parse can give
StatusRecords ==
    { [NewParserData(File(st, TRUE, <<>>)) EXCEPT !.health_status = h, !.errors = e] :
        st \in Stems, h \in {Passed, <<"FAILED!">>}, e \in {0, 2} }

\* records with the peak fields main can have merged in
PeakRecords ==
    { (IF r = 0 THEN <<>> ELSE [peak_read_bw |-> PeakText(r)])
        @@ (IF w = 0 THEN <<>> ELSE [peak_write_bw |-> PeakText(w)])
        @@ NewParserData(File(Stem0, TRUE, <<>>)) :
        r \in {0, 1000, 3000}, w \in {0, 2001, 3000} }

ReportSysfs ==
    { Sysfs(TRUE, TRUE, <<"1", "6", ".0", " GT/s", " PCIe">>, TRUE, <<"4">>) }

ReportInit ==
    /\ drives_data \in BoundedSeq(StatusRecords, MaxDrives)
                          \cup BoundedSeq(PeakRecords, MaxDrives)
    /\ sysfs \in ReportSysfs
    /\ log_files = <<>>
    /\ artifacts = NoArtifacts
    /\ data = NoParser
    /\ report = NoReport
    /\ pcie = NoValue
    /\ printed = <<>>
    /\ calls = 0
    /\ pc = "render"
    /\ RunnerIdle

\* generate_html_report(drives_data, output_file)
RenderPlain ==
    /\ pc = "render"
    /\ pcie' = GetPcieInfo(sysfs)
    /\ \E now \in Clock :
          report' = GenerateHtmlReport(drives_data, GetPcieInfo(sysfs), now)
    /\ printed' = Append(printed, <<"Report generated successfully">>)
    /\ pc' = "rendered"
    /\ UNCHANGED <<log_files, artifacts, sysfs, data, drives_data, calls>>
    /\ UNCHANGED runner_vars
    /\ UNCHANGED request_vars

\* generate_html_report_with_peak(drives_data, output_file)
RenderPeak ==
    /\ pc = "render"
    /\ pcie' = GetPcieInfo(sysfs)
    /\ \E now \in Clock :
          report' = GenerateHtmlReportWithPeak(drives_data, GetPcieInfo(sysfs), now)
    /\ printed' = Append(printed, <<"Report updated successfully">>)
    /\ pc' = "rendered"
    /\ UNCHANGED <<log_files, artifacts, sysfs, data, drives_data, calls>>
    /\ UNCHANGED runner_vars
    /\ UNCHANGED request_vars

ReportNext == RenderPlain \/ RenderPeak

SpecReport == ReportInit /\ [][ReportNext]_vars

-----------------------------------------------------------------------------
(* Claims about the rendered report (SpecReport) *)

Rendered == pc = "rendered"

PassedBadge(card) ==
    card.status_class = "status-passed" /\ card.status_text = <<"PASSED", " ", "U+2713">>

CheckBadge(card) ==
    card.status_class = "status-failed" /\ card.status_text = <<"CHECK">>

\* C1: in the plain and in the peak report, a card carries the passed badge iff
\* the health status it shows is 'PASSED' and the error count it shows is 0
\* (any other card carries the CHECK badge), and the Drives Passed count is
\* the number of cards with the passed badge.
C1_BadgeMatchesCount ==
    Rendered =>
        /\ report.kind \in {"plain", "peak"}
        /\ \A i \in 1..Len(report.cards) :
              LET card == report.cards[i]
              IN /\ PassedBadge(card) <=>
                       (card.health_status = <<"PASSED">> /\ card.errors = 0)
                 /\ PassedBadge(card) \/ CheckBadge(card)
        /\ report.passed_count =
              Cardinality({i \in 1..Len(report.cards) : PassedBadge(report.cards[i])})
        /\ report.total_count = Len(report.cards)

C1_Witness ==
    /\ Rendered
    /\ report.kind = "peak"
    /\ Len(report.cards) = 3
    /\ report.passed_count = 1
    /\ \E i \in 1..3 : report.cards[i].health_status = <<"PASSED">>
                          /\ report.cards[i].errors = 2
    /\ \E i \in 1..3 : report.cards[i].health_status = <<"FAILED!">>
                          /\ report.cards[i].errors = 0

Perms(n) == {p \in [1..n -> 1..n] : \A i, j \in 1..n : p[i] = p[j] => i = j}

\* cards is dd reordered by ascending name, equal names in their order in dd
StablySorted(cards, dd) ==
    /\ Len(cards) = Len(dd)
    /\ \E p \in Perms(Len(dd)) :
          /\ \A i \in 1..Len(dd) : cards[i].drive = dd[p[i]]
          /\ \A i, j \in 1..Len(dd) :
                i < j => \/ StrLess(dd[p[i]].drive_name, dd[p[j]].drive_name)
                         \/ /\ dd[p[i]].drive_name = dd[p[j]].drive_name
                            /\ p[i] < p[j]

\* C27: the summary footer of a generated report says that all drives passed
\* stress testing only when passed_count equals total_count; a report with
\* a card that carries the CHECK badge does not say so.
C27_FooterOnlyWhenAllPassed ==
    Rendered =>
        (report.footer_all_passed =>
            /\ report.passed_count = report.total_count
            /\ \A i \in 1..Len(report.cards) : ~CheckBadge(report.cards[i]))

\* C7: a rendering puts the cards in ascending lexical order of drive_name
\* whatever the order of the records, records with equal names in their input
\* order, and leaves the record list as it was.
C7_CardsSorted ==
    [][ (pc = "render" /\ pc' = "rendered")
          => /\ drives_data' = drives_data
             /\ StablySorted(report'.cards, drives_data)
             /\ \A i \in 1..Len(drives_data) :
                   report'.cards[i].title = Upper(report'.cards[i].drive.drive_name) ]_vars

\* nvme1n1 (failed), nvme10n1, nvme1n1 (passed) come out as
\* NVME10N1, NVME1N1 (failed), NVME1N1 (passed)
C7_Witness ==
    /\ Rendered
    /\ Len(drives_data) = 3
    /\ drives_data[1].drive_name = Stem1 /\ drives_data[1].health_status = <<"FAILED!">>
    /\ drives_data[2].drive_name = Stem10
    /\ drives_data[3].drive_name = Stem1 /\ drives_data[3].health_status = <<"PASSED">>
    /\ report.cards[1].title = <<49, 48, 78, 49>>
    /\ report.cards[2].title = <<49, 78, 49>>
    /\ report.cards[2].health_status = <<"FAILED!">>
    /\ report.cards[3].health_status = <<"PASSED">>

\* the number a peak field was formatted from
PeakInts == {1000, 2001, 3000}
PeakIntOf(text) == CHOOSE n \in PeakInts : PeakText(n) = text

SumPeaks(dd, key) ==
    LET RECURSIVE Go(_)
        Go(i) == IF i = 0 THEN 0
                 ELSE Go(i - 1) + (IF key \in DOMAIN dd[i] THEN PeakIntOf(dd[i][key]) ELSE 0)
    IN Go(Len(dd))

CountPeaks(dd, key) == Cardinality({i \in 1..Len(dd) : key \in DOMAIN dd[i]})

\* C6: the average peak read and the average peak write are each the sum of
\* the values of the devices that have the field divided by the number of
\* those devices (1000, 3000 and a device without the field give 2000); with
\* no such device the denominator is 1 and the average is 0.
C6_AverageExcludesMissing ==
    (Rendered /\ report.kind = "peak") =>
        /\ \A key \in {"peak_read_bw", "peak_write_bw"} :
              LET avg == IF key = "peak_read_bw" THEN report.avg_peak_read
                         ELSE report.avg_peak_write
              IN /\ avg.num = SumPeaks(drives_data, key)
                 /\ CountPeaks(drives_data, key) > 0
                       => avg.den = CountPeaks(drives_data, key)
                 /\ CountPeaks(drives_data, key) = 0 => avg.den = 1 /\ avg.num = 0
        /\ ( /\ Len(drives_data) = 3
             /\ Get(drives_data[1], "peak_read_bw", NA) = <<"1", "0", "0", "0", " ", "MiB/s">>
             /\ Get(drives_data[2], "peak_read_bw", NA) = NA
             /\ Get(drives_data[3], "peak_read_bw", NA) = <<"3", "0", "0", "0", " ", "MiB/s">> )
              => /\ report.avg_peak_read.num = 2000 * report.avg_peak_read.den
                 /\ report.avg_peak_read_text = 2000

C6_Witness ==
    /\ Rendered /\ report.kind = "peak"
    /\ Len(drives_data) = 3
    /\ Get(drives_data[1], "peak_read_bw", NA) = <<"1", "0", "0", "0", " ", "MiB/s">>
    /\ Get(drives_data[2], "peak_read_bw", NA) = NA
    /\ Get(drives_data[3], "peak_read_bw", NA) = <<"3", "0", "0", "0", " ", "MiB/s">>
    /\ report.avg_peak_read = [num |-> 4000, den |-> 2]
    /\ report.avg_peak_write = [num |-> 0, den |-> 1]

-----------------------------------------------------------------------------
(* generate_report.main *)

\* the lines the logs of the batch runs are made of
MainLines ==
    { Line("Model Number", <<"Samsung 990 PRO">>, 0),
      Line("SMART overall-health", <<"PASSED">>, 0),
      Line("Error Information Log Entries", <<>>, 2) }

MainFiles ==
    { File(st, TRUE, c) : st \in Stems, c \in BoundedSeq(MainLines, 2) }
        \cup { File(st, FALSE, <<>>) : st \in Stems }

\* a report file left by an earlier run
OldReport == [kind |-> "old"]

\* sorted(log_dir.glob('nvme*.log')): distinct names in ascending order
SortedGlob(files) ==
    \A i, j \in 1..Len(files) : i < j => StrLess(files[i].stem, files[j].stem)

MainInit ==
    /\ log_files \in BoundedSeq(MainFiles, MaxFiles)
    /\ SortedGlob(log_files)
    /\ artifacts = NoArtifacts
    /\ sysfs \in ReportSysfs
    /\ data = NoParser
    /\ drives_data = <<>>
    /\ report \in {NoReport, OldReport}
    /\ pcie = NoValue
    /\ printed = <<>>
    /\ calls = 0
    /\ pc = "main"
    /\ RunnerIdle

\* main() without the early return: an empty list goes on to the loop
MainStartWithoutReturn ==
    /\ pc = "main"
    /\ IF log_files = <<>>
       THEN /\ printed' = Append(printed, <<"No log files found!">>)
            /\ pc' = "loop"
       ELSE /\ printed' = Append(printed, <<"Found", Len(log_files), "log files">>)
            /\ pc' = "loop"
    /\ drives_data' = <<>>
    /\ UNCHANGED <<log_files, artifacts, sysfs, data, report, pcie, calls>>
    /\ UNCHANGED runner_vars
    /\ UNCHANGED request_vars

\* main() up to the loop: "if not log_files: print(...); return"
MainStart ==
    /\ pc = "main"
    /\ IF log_files = <<>>
       THEN /\ printed' = Append(printed, <<"No log files found!">>)
            /\ pc' = "exit"
       ELSE /\ printed' = Append(printed, <<"Found", Len(log_files), "log files">>)
            /\ pc' = "loop"
    /\ drives_data' = <<>>
    /\ UNCHANGED <<log_files, artifacts, sysfs, data, report, pcie, calls>>
    /\ UNCHANGED runner_vars
    /\ UNCHANGED request_vars

\* one turn of "for log_file in log_files": a new parser, parse(), append
MainParse ==
    /\ pc = "loop"
    /\ Len(drives_data) < Len(log_files)
    /\ LET log_file == log_files[Len(drives_data) + 1]
       IN /\ data' = ParseData(NewParserData(log_file), log_file)
          /\ drives_data' = Append(drives_data, data')
          /\ printed' = printed \o << <<"Parsing", log_file.stem>> >>
                                \o ParsePrinted(log_file)
    /\ UNCHANGED <<log_files, artifacts, sysfs, report, pcie, calls, pc>>
    /\ UNCHANGED runner_vars
    /\ UNCHANGED request_vars

\* after the loop: generate_html_report(drives_data, output_file) and the
\* closing prints
MainReport ==
    /\ pc = "loop"
    /\ Len(drives_data) = Len(log_files)
    /\ pcie' = GetPcieInfo(sysfs)
    /\ \E now \in Clock :
          report' = GenerateHtmlReport(drives_data, GetPcieInfo(sysfs), now)
    /\ printed' = printed \o << <<"Report generated successfully">>,
                                <<"Report created">> >>
    /\ pc' = "exit"
    /\ UNCHANGED <<log_files, artifacts, sysfs, data, drives_data, calls>>
    /\ UNCHANGED runner_vars
    /\ UNCHANGED request_vars

MainNext == MainStart \/ MainParse \/ MainReport

SpecMain == MainInit /\ [][MainNext]_vars

-----------------------------------------------------------------------------
(* Claims about generate_report.main (SpecMain) *)

\* C10: a log that cannot be opened or read does not stop the batch: its
\* failure is printed, its record has every field at its default, the
\* records of the other logs are what parsing each of them alone gives, and
\* the report is rendered over all of them.
C10_UnreadableLogContained ==
    /\ \A i \in 1..Len(drives_data) :
          LET f == log_files[i]
          IN IF f.readable
             THEN drives_data[i] = ParseContent(DocumentedDefaults(f.stem), f.content)
             ELSE /\ drives_data[i] = DocumentedDefaults(f.stem)
                  /\ \E k \in 1..Len(printed) : printed[k] = <<"Error parsing", f.stem>>
    /\ (pc = "loop" /\ Len(drives_data) < Len(log_files)) => ENABLED MainParse
    /\ (pc = "exit" /\ log_files # <<>>) =>
          /\ Len(drives_data) = Len(log_files)
          /\ report.kind = "plain"
          /\ report.total_count = Len(log_files)

C10_Witness ==
    /\ pc = "exit"
    /\ Len(log_files) = 2
    /\ log_files[1].readable /\ log_files[1].content # <<>>
    /\ ~log_files[2].readable
    /\ drives_data[1].health_status = <<"PASSED">>
    /\ drives_data[2] = DocumentedDefaults(log_files[2].stem)
    /\ report.total_count = 2

-----------------------------------------------------------------------------
(* parse_fio_json and update_report_with_peak_perf.main *)

MaxJobs == 2

\* job['read'] / job['write']: whether the key is there, whether it has 'bw',
\* and the bandwidth in KB/s
Side(present, has_bw, bw) == [present |-> present, has_bw |-> has_bw, bw |-> bw]

Sides ==
    { Side(FALSE, FALSE, 0), Side(TRUE, FALSE, 0) }
        \cup { Side(TRUE, TRUE, bw) : bw \in {0, 1000, 2048000, 3073500} }

Job(read, write) == [read |-> read, write |-> write]

\* the first element of 'jobs'
FirstJobs == { Job(r, w) : r \in Sides, w \in Sides }

\* the elements after the first
LaterJobs == { Job(Side(TRUE, TRUE, 5120000), Side(TRUE, TRUE, 6144000)) }

\* a <drive>_read.json / <drive>_write.json file: whether it exists, whether
\* open() and json.load() succeed, whether the document has 'jobs', and the
\* jobs
Artifact(exists, valid, has_jobs, jobs) ==
    [exists |-> exists, valid |-> valid, has_jobs |-> has_jobs, jobs |-> jobs]

NoFile == Artifact(FALSE, FALSE, FALSE, <<>>)

GoodRead == Artifact(TRUE, TRUE, TRUE, << Job(Side(TRUE, TRUE, 1024000), Side(TRUE, TRUE, 0)) >>)

GoodWrite == Artifact(TRUE, TRUE, TRUE, << Job(Side(TRUE, TRUE, 0), Side(TRUE, TRUE, 3072000)) >>)

Artifacts ==
    { NoFile, Artifact(TRUE, FALSE, FALSE, <<>>), Artifact(TRUE, TRUE, FALSE, <<>>),
      Artifact(TRUE, TRUE, TRUE, <<>>) }
        \cup { Artifact(TRUE, TRUE, TRUE, <<j>> \o rest) :
                 j \in FirstJobs, rest \in BoundedSeq(LaterJobs, MaxJobs - 1) }

\* the result of parse_fio_json: <<>> for None, <<n>> for the integer n
None == <<>>

\* Python's truth value of that result: None and 0 are false
Truthy(r) == r # None /\ r[1] # 0

\* int(bw_kbs / 1024)
KbsToMibs(bw_kbs) == bw_kbs \div 1024

\* parse_fio_json reading the last job instead of jobs[0]
ParseFioJsonLastJob(art) ==
    IF ~art.valid THEN None
    ELSE IF art.has_jobs /\ Len(art.jobs) > 0
    THEN LET job == art.jobs[Len(art.jobs)]
         IN IF job.read.present /\ job.read.has_bw /\ job.read.bw > 0
            THEN <<KbsToMibs(job.read.bw)>>
            ELSE IF job.write.present /\ job.write.has_bw /\ job.write.bw > 0
            THEN <<KbsToMibs(job.write.bw)>>
            ELSE None
    ELSE None

\* parse_fio_json(json_file)
ParseFioJson(art) ==
    IF ~art.valid THEN None
    ELSE IF art.has_jobs /\ Len(art.jobs) > 0
    THEN LET job == art.jobs[1]
         IN IF job.read.present /\ job.read.has_bw /\ job.read.bw > 0
            THEN <<KbsToMibs(job.read.bw)>>
            ELSE IF job.write.present /\ job.write.has_bw /\ job.write.bw > 0
            THEN <<KbsToMibs(job.write.bw)>>
            ELSE None
    ELSE None

ParseFioJsonPrinted(art) ==
    IF art.exists /\ ~art.valid THEN << <<"Error parsing json">> >> ELSE <<>>

\* "if json.exists(): peak = parse_fio_json(json); if peak: data[key] = ..."
MergePeak(d, key, art) ==
    IF art.exists /\ Truthy(ParseFioJson(art))
    THEN [x \in {key} |-> PeakText(ParseFioJson(art)[1])] @@ d
    ELSE d

MergePeakPrinted(label, art) ==
    IF art.exists
    THEN ParseFioJsonPrinted(art)
           \o (IF Truthy(ParseFioJson(art)) THEN << <<label, ParseFioJson(art)[1]>> >>
               ELSE <<>>)
    ELSE <<>>

\* the names sorted(glob) gives the logs of the peak runs: 0n1 < 10n1 < 1n1
StemsInOrder == <<Stem0, Stem10, Stem1>>

PeakLog == << Line("SMART overall-health", <<"PASSED">>, 0) >>

\* the artifacts of the first drive vary in one direction at a time, those of
\* the others are absent or well-formed
PeakArtifacts(n) ==
    LET pair(r, w) == [read |-> r, write |-> w]
        first == { pair(r, w) : r \in Artifacts, w \in {NoFile, GoodWrite} }
                   \cup { pair(r, w) : r \in {NoFile, GoodRead}, w \in Artifacts }
        others == { pair(r, w) : r \in {NoFile, GoodRead}, w \in {NoFile, GoodWrite} }
    IN IF n = 0 THEN {<<>>}
       ELSE { <<f>> \o rest : f \in first, rest \in [1..(n - 1) -> others] }

PeakMainInit ==
    /\ \E n \in 0..MaxFiles :
          /\ n <= Len(StemsInOrder)
          /\ log_files = [i \in 1..n |-> File(StemsInOrder[i], TRUE, PeakLog)]
          /\ artifacts \in PeakArtifacts(n)
    /\ sysfs \in ReportSysfs
    /\ data = NoParser
    /\ drives_data = <<>>
    /\ report \in {NoReport, OldReport}
    /\ pcie = NoValue
    /\ printed = <<>>
    /\ calls = 0
    /\ pc = "peak_main"
    /\ RunnerIdle

\* main() up to the loop
PeakMainStart ==
    /\ pc = "peak_main"
    /\ IF log_files = <<>>
       THEN /\ printed' = Append(printed, <<"No log files found!">>)
            /\ pc' = "peak_exit"
       ELSE /\ printed' = Append(printed, <<"Found", Len(log_files), "log files">>)
            /\ pc' = "peak_loop"
    /\ drives_data' = <<>>
    /\ UNCHANGED <<log_files, artifacts, sysfs, data, report, pcie, calls>>
    /\ UNCHANGED runner_vars
    /\ UNCHANGED request_vars

\* one turn of the loop: parse the log, merge the read and the write artifact
PeakMainParse ==
    /\ pc = "peak_loop"
    /\ Len(drives_data) < Len(log_files)
    /\ LET i == Len(drives_data) + 1
           log_file == log_files[i]
           parsed == ParseData(NewParserData(log_file), log_file)
           with_read == MergePeak(parsed, "peak_read_bw", artifacts[i].read)
       IN /\ data' = MergePeak(with_read, "peak_write_bw", artifacts[i].write)
          /\ drives_data' = Append(drives_data, data')
          /\ printed' = printed \o << <<"Parsing", log_file.stem>> >>
                                \o ParsePrinted(log_file)
                                \o MergePeakPrinted("Peak read", artifacts[i].read)
                                \o MergePeakPrinted("Peak write", artifacts[i].write)
    /\ UNCHANGED <<log_files, artifacts, sysfs, report, pcie, calls, pc>>
    /\ UNCHANGED runner_vars
    /\ UNCHANGED request_vars

\* after the loop: generate_html_report_with_peak(drives_data, output_file)
PeakMainReport ==
    /\ pc = "peak_loop"
    /\ Len(drives_data) = Len(log_files)
    /\ pcie' = GetPcieInfo(sysfs)
    /\ \E now \in Clock :
          report' = GenerateHtmlReportWithPeak(drives_data, GetPcieInfo(sysfs), now)
    /\ printed' = printed \o << <<"Report updated successfully">>,
                                <<"Report updated">> >>
    /\ pc' = "peak_exit"
    /\ UNCHANGED <<log_files, artifacts, sysfs, data, drives_data, calls>>
    /\ UNCHANGED runner_vars
    /\ UNCHANGED request_vars

PeakMainNext == PeakMainStart \/ PeakMainParse \/ PeakMainReport

SpecPeakMain == PeakMainInit /\ [][PeakMainNext]_vars

-----------------------------------------------------------------------------
(* Claims about the peak-bandwidth merge (SpecPeakMain) *)

HasFirstJob(art) == art.exists /\ art.valid /\ art.has_jobs /\ art.jobs # <<>>

\* the side has a bandwidth greater than 0
HasBw(side) == side.present /\ side.has_bw /\ side.bw > 0

\* C4: an artifact of a direction whose first job has bandwidth 0 for that
\* direction, or no key for it, leaves the peak field of that direction unset
\* on the device record, whatever the other direction of the job holds.
C4_NoPeakWithoutBandwidth ==
    \A i \in 1..Len(drives_data) :
        /\ (HasFirstJob(artifacts[i].read) /\ ~HasBw(artifacts[i].read.jobs[1].read))
              => "peak_read_bw" \notin DOMAIN drives_data[i]
        /\ (HasFirstJob(artifacts[i].write) /\ ~HasBw(artifacts[i].write.jobs[1].write))
              => "peak_write_bw" \notin DOMAIN drives_data[i]

\* KB/s divided by 1024 and truncated, in decimal digits
MibDigits(bw) ==
    CASE bw = 1000 -> <<"0">>
      [] bw = 1024000 -> <<"1", "0", "0", "0">>
      [] bw = 2048000 -> <<"2", "0", "0", "0">>
      [] bw = 3072000 -> <<"3", "0", "0", "0">>
      [] bw = 3073500 -> <<"3", "0", "0", "1">>
      [] OTHER -> <<"?">>

\* the peak field `key` of record d comes from the artifact art as C5 says
PeakFromFirstJob(d, key, art, own, other) ==
    /\ key \in DOMAIN d =>
          /\ HasFirstJob(art)
          /\ \E side \in {art.jobs[1].read, art.jobs[1].write} :
                HasBw(side) /\ d[key] = MibDigits(side.bw) \o <<" ", "MiB/s">>
          /\ d[key] # <<"0", " ", "MiB/s">>
    /\ (HasFirstJob(art) /\ HasBw(art.jobs[1][own]) /\ ~HasBw(art.jobs[1][other])) =>
          IF art.jobs[1][own].bw >= 1024
          THEN key \in DOMAIN d
                 /\ d[key] = MibDigits(art.jobs[1][own].bw) \o <<" ", "MiB/s">>
          ELSE key \notin DOMAIN d
    /\ (HasFirstJob(art) /\ ~HasBw(art.jobs[1].read) /\ ~HasBw(art.jobs[1].write))
          => key \notin DOMAIN d

\* C5: a peak field is computed from the first element of 'jobs' only, as its
\* KB/s value divided by 1024 and truncated, and stored as '<n> MiB/s'; a read
\* artifact whose first job has read bw 2048000 gives peak_read_bw
\* '2000 MiB/s'; the jobs after the first change nothing.
C5_PeakFromFirstJobOnly ==
    \A i \in 1..Len(drives_data) :
        /\ PeakFromFirstJob(drives_data[i], "peak_read_bw", artifacts[i].read,
                            "read", "write")
        /\ PeakFromFirstJob(drives_data[i], "peak_write_bw", artifacts[i].write,
                            "write", "read")
        /\ ( HasFirstJob(artifacts[i].read)
               /\ artifacts[i].read.jobs[1].read = Side(TRUE, TRUE, 2048000) )
              => /\ "peak_read_bw" \in DOMAIN drives_data[i]
                 /\ drives_data[i].peak_read_bw = <<"2", "0", "0", "0", " ", "MiB/s">>

C5_Witness ==
    /\ pc = "peak_exit"
    /\ Len(drives_data) = 1
    /\ Len(artifacts[1].read.jobs) = 2
    /\ artifacts[1].read.jobs[1] = Job(Side(TRUE, TRUE, 2048000), Side(TRUE, TRUE, 0))
    /\ "peak_read_bw" \in DOMAIN drives_data[1]
    /\ drives_data[1].peak_read_bw = <<"2", "0", "0", "0", " ", "MiB/s">>
    /\ report.cards[1].peak_read_bw = <<"2", "0", "0", "0", " ", "MiB/s">>
    /\ report.cards[1].peak_write_bw = NA

-----------------------------------------------------------------------------
(* The two report programs side by side *)

MainsInit == MainInit \/ PeakMainInit

MainsNext == MainNext \/ PeakMainNext

SpecMains == MainsInit /\ [][MainsNext]_vars

\* C11: with no log file in the directory, generate_report.main and
\* update_report_with_peak_perf.main print 'No log files found!' and return;
\* the renderer and the link query are never run, no report file appears and
\* an existing one stays as it was, and no report of zero devices is written.
C11_NoLogsNoReport ==
    /\ [](log_files = <<>> => report \in {NoReport, OldReport})
    /\ [][ log_files = <<>> =>
              /\ pc \in {"main", "peak_main"}
              /\ pc' \in {"exit", "peak_exit"}
              /\ printed' = << <<"No log files found!">> >>
              /\ report' = report
              /\ pcie' = pcie
              /\ drives_data' = <<>> ]_vars

C11_Witness ==
    /\ pc = "peak_exit"
    /\ log_files = <<>>
    /\ report = OldReport
    /\ pcie = NoValue
    /\ printed = << <<"No log files found!">> >>

-----------------------------------------------------------------------------
(* The test runners: web_app.py (run_stress_test, api_test_start,
   api_test_stop) and nvme_stress_gui.py (WorkerThread, start_test,
   stop_test, test_finished) *)

MaxOut == 2
MaxStops == 1
\* mounted partitions of the device
MaxParts == 2
\* the longest duration asked for, the longest time waited, in seconds
MaxDuration == 2
MaxElapsed == 3
\* status requests and timer ticks
MaxPolls == 1

\* the devices the operator can pick
Devices == {"nvme0n1"}

\* one start request more than there are devices: some device gets a second one
MaxTests == Cardinality(Devices) + 1

\* the duration the page and the window propose, in seconds
DefaultDuration == 600

\* a start request: the device picked, the duration asked for and whether the
\* operator lets the runner unmount the device
StartRequest(device, duration, auto_unmount) ==
    [device |-> device, duration |-> duration, auto_unmount |-> auto_unmount]

\* an answer: a JSON response with its HTTP status (web), a message box
\* (desktop); a status answer carries running, progress and remaining
Reply(kind, status, text) ==
    [ kind |-> kind, status |-> status, text |-> text,
      running |-> FALSE, progress |-> 0, remaining |-> 0 ]

\* check_if_mounted: f"/dev/{device_name}" in the text of /proc/mounts; the
\* table holds the partitions of the one device
CheckIfMounted(device) == mounts # <<>>

\* the unmount loop over the n lines grep found, of which the first k
\* unmounts succeed: it fails at line k + 1 (CalledProcessError on the web,
\* returncode != 0 on the desktop); the variant goes on after a failure
UnmountFailedIgnored(k, n) == FALSE

UnmountFailed(k, n) == k < n

\* a child process: "none" before Popen, then "running", then "exited" with
\* its return code; the lines it has written to its stdout pipe; whether
\* SIGTERM and SIGKILL were sent to it
NoProc == [state |-> "none", code |-> 0, out |-> 0, term |-> FALSE, kill |-> FALSE]

\* subprocess.Popen(command, stdout=PIPE, ...) when it succeeds
Popen == [state |-> "running", code |-> 0, out |-> 0, term |-> FALSE, kill |-> FALSE]

\* process.terminate(): SIGTERM, unless the child was already reaped
Terminate(p) == IF p.state = "running" THEN [p EXCEPT !.term = TRUE] ELSE p

\* "if process.poll() is None": the child is still alive after the grace
\* period; the variant kills without asking
ForceKillAlways(p) == TRUE

ForceKillNeeded(p) == p.state = "running"

\* "time.sleep(0.5); if process.poll() is None: process.kill()"
KillAfterGrace(p) ==
    IF ForceKillNeeded(p)
    THEN [p EXCEPT !.state = "exited", !.kill = TRUE,
                   !.code = IF p.state = "running" THEN 0 - 9 ELSE @]
    ELSE p

\* the return codes a child can end with: its own exit status, or -15 when
\* SIGTERM ended it
ExitCodes(p) == {0, 1} \cup (IF p.term THEN {0 - 15} ELSE {})

\* a worker thread: run_stress_test(test_id, device_path, ...) of the web
\* layer, WorkerThread of the desktop
Worker(test_id, device) ==
    [ test_id |-> test_id, device |-> device, pc |-> "spawned",
      read |-> 0, rc |-> 0, killed |-> FALSE, process |-> FALSE ]

\* what reaches the listener: test_output / update_signal (a line),
\* test_finished / finished_signal (success or not), test_error
Output(r, n) ==
    [ run |-> r, type |-> "output", success |-> FALSE, n |-> n, by |-> "worker",
      message |-> "line" ]
Finished(r, success, by) ==
    [ run |-> r, type |-> "finished", success |-> success, n |-> 0, by |-> by,
      message |-> IF by = "stop" THEN "Test was stopped by user"
                  ELSE IF success THEN "Test completed successfully"
                  ELSE "Test failed" ]
\* finished_signal.emit(False, "Test was cancelled")
Cancelled(r) == [Finished(r, FALSE, "worker") EXCEPT !.message = "Test was cancelled"]
TestError(r) ==
    [ run |-> r, type |-> "error", success |-> FALSE, n |-> 0, by |-> "worker",
      message |-> "error" ]

\* f"test_{timestamp}_{device_name}": the second of the request and the device
TestId(ts, device) == <<ts, device>>

\* the second of the latest start request (time does not go back)
LastTs == IF workers = <<>> THEN 1 ELSE workers[Len(workers)].test_id[1]

\* the listener receives event e of run r
Emit(r, e) == [events EXCEPT ![r] = Append(@, e)]

\* del d[k]
Drop(d, k) == [x \in DOMAIN d \ {k} |-> d[x]]

\* the window after initUI: Start enabled, Stop disabled, "Ready"
Window ==
    [ start_enabled |-> TRUE, stop_enabled |-> FALSE, worker_thread |-> 0,
      busy |-> "idle", status_label |-> "Ready", timer |-> FALSE,
      test_duration |-> 0, progress_bar |-> 0 ]

RunnerInit ==
    /\ layer \in {"web", "desktop"}
    /\ gui = IF layer = "desktop" THEN Window ELSE NoGui
    /\ active_tests = <<>>
    /\ workers = <<>>
    /\ procs = <<>>
    /\ stops = <<>>
    /\ queue = <<>>
    /\ events = <<>>
    /\ mounts = <<>>
    /\ requests \in [1..MaxTests -> {StartRequest(d, DefaultDuration, TRUE) : d \in Devices}]
    /\ replies = <<>>
    /\ log_files = <<>>
    /\ artifacts = NoArtifacts
    /\ sysfs = NoSysfs
    /\ data = NoParser
    /\ drives_data = <<>>
    /\ report = NoReport
    /\ pcie = NoValue
    /\ printed = <<>>
    /\ calls = 0
    /\ pc = "runner"

(* the child process *)

\* the child writes one more line to its stdout
ChildWrites ==
    \E r \in 1..Len(procs) :
        /\ procs[r].state = "running"
        /\ procs[r].out < MaxOut
        /\ procs' = [procs EXCEPT ![r].out = @ + 1]
        /\ UNCHANGED <<layer, active_tests, workers, stops, gui, queue, events>>
        /\ UNCHANGED report_vars
        /\ UNCHANGED request_vars

\* the child ends: by itself, or on the SIGTERM sent to it
ChildExits ==
    \E r \in 1..Len(procs) :
        /\ procs[r].state = "running"
        /\ \E code \in ExitCodes(procs[r]) :
              procs' = [procs EXCEPT ![r].state = "exited", ![r].code = code]
        /\ UNCHANGED <<layer, active_tests, workers, stops, gui, queue, events>>
        /\ UNCHANGED report_vars
        /\ UNCHANGED request_vars

(* web_app.py *)

\* api_test_start on the next request (which names a device): a mounted
\* device without auto_unmount is refused (400), a failed unmount ends the
\* request (500); else active_tests[test_id] = {...}; thread.start()
ApiTestStart ==
    /\ layer = "web"
    /\ requests # <<>>
    /\ Len(workers) < MaxTests
    /\ requests' = Tail(requests)
    /\ LET req == Head(requests)
       IN \E ts \in {LastTs, LastTs + 1}, k \in 0..Len(mounts) :
             /\ workers = <<>> => ts = 1
             /\ IF CheckIfMounted(req.device) /\ ~req.auto_unmount
                THEN /\ k = 0
                     /\ replies' = Append(replies, Reply("start", 400, "Device is mounted"))
                     /\ UNCHANGED <<mounts, active_tests, workers, procs, events>>
                ELSE /\ mounts' = SubSeq(mounts, k + 1, Len(mounts))
                     /\ IF UnmountFailed(k, Len(mounts))
                        THEN /\ replies' = Append(replies,
                                    Reply("start", 500, "Failed to unmount device"))
                             /\ UNCHANGED <<active_tests, workers, procs, events>>
                        ELSE /\ active_tests' =
                                    [x \in {TestId(ts, req.device)} |->
                                        [process |-> 0, duration |-> req.duration]]
                                      @@ active_tests
                             /\ workers' = Append(workers,
                                    Worker(TestId(ts, req.device), req.device))
                             /\ procs' = Append(procs, NoProc)
                             /\ events' = Append(events, <<>>)
                             /\ replies' = Append(replies, Reply("start", 200, "test_id"))
    /\ UNCHANGED <<layer, stops, gui, queue>>
    /\ UNCHANGED report_vars

\* run_stress_test up to the read loop: the script is missing (test_error,
\* return), Popen raises (test_error, del), or the child is launched and
\* stored in active_tests[test_id] (KeyError when the entry is gone)
RunStressTestBegin ==
    \E r \in 1..Len(workers), outcome \in {"no_script", "popen_raises", "launched"} :
        /\ layer = "web"
        /\ workers[r].pc = "spawned"
        /\ LET tid == workers[r].test_id
           IN CASE outcome = "no_script" ->
                     /\ events' = Emit(r, TestError(r))
                     /\ workers' = [workers EXCEPT ![r].pc = "done"]
                     /\ UNCHANGED <<procs, active_tests>>
                [] outcome = "popen_raises" ->
                     /\ events' = Emit(r, TestError(r))
                     /\ active_tests' = Drop(active_tests, tid)
                     /\ workers' = [workers EXCEPT ![r].pc = "done"]
                     /\ UNCHANGED procs
                [] outcome = "launched" ->
                     /\ procs' = [procs EXCEPT ![r] = Popen]
                     /\ IF tid \in DOMAIN active_tests
                        THEN /\ active_tests' = [active_tests EXCEPT ![tid].process = r]
                             /\ workers' = [workers EXCEPT ![r].pc = "reading",
                                                           ![r].process = TRUE]
                             /\ UNCHANGED events
                        ELSE /\ events' = Emit(r, TestError(r))
                             /\ workers' = [workers EXCEPT ![r].pc = "done",
                                                           ![r].process = TRUE]
                             /\ UNCHANGED active_tests
        /\ UNCHANGED <<layer, stops, gui, queue>>
        /\ UNCHANGED report_vars
        /\ UNCHANGED request_vars

\* one turn of "for line in iter(process.stdout.readline, '')": emit test_output
RunStressTestRead ==
    \E r \in 1..Len(workers) :
        /\ layer = "web"
        /\ workers[r].pc = "reading"
        /\ workers[r].read < procs[r].out
        /\ workers' = [workers EXCEPT ![r].read = @ + 1]
        /\ events' = Emit(r, Output(r, workers[r].read + 1))
        /\ UNCHANGED <<layer, active_tests, procs, stops, gui, queue>>
        /\ UNCHANGED report_vars
        /\ UNCHANGED request_vars

\* end of file on the pipe: return_code = process.wait(); emit test_finished
RunStressTestFinish ==
    \E r \in 1..Len(workers) :
        /\ layer = "web"
        /\ workers[r].pc = "reading"
        /\ workers[r].read = procs[r].out
        /\ procs[r].state = "exited"
        /\ workers' = [workers EXCEPT ![r].pc = "emitted", ![r].rc = procs[r].code]
        /\ events' = Emit(r, Finished(r, procs[r].code = 0, "worker"))
        /\ UNCHANGED <<layer, active_tests, procs, stops, gui, queue>>
        /\ UNCHANGED report_vars
        /\ UNCHANGED request_vars

\* "if test_id in active_tests: del active_tests[test_id]"
RunStressTestCleanup ==
    \E r \in 1..Len(workers) :
        /\ layer = "web"
        /\ workers[r].pc = "emitted"
        /\ active_tests' = Drop(active_tests, workers[r].test_id)
        /\ workers' = [workers EXCEPT ![r].pc = "done"]
        /\ UNCHANGED <<layer, procs, stops, gui, queue, events>>
        /\ UNCHANGED report_vars
        /\ UNCHANGED request_vars

\* an api_test_stop request being served: the test_id of its URL, the process
\* it found (0: none), where the handler is, its HTTP status and error, and
\* how many starts had been accepted when it arrived
StopRequest(tid, process, at, status, error) ==
    [ test_id |-> tid, process |-> process, pc |-> at, status |-> status,
      error |-> error, seen |-> Len(workers) ]

\* api_test_stop up to its sleep, for a test_id a start request has given out:
\* 404 'Test not found' when it is not in active_tests, 404 'Process not
\* found' when the entry has no process yet, else process.terminate()
ApiTestStop ==
    /\ layer = "web"
    /\ Len(stops) < MaxStops
    /\ \E r \in 1..Len(workers) :
          LET tid == workers[r].test_id
          IN IF tid \notin DOMAIN active_tests
             THEN /\ stops' = Append(stops, StopRequest(tid, 0, "refused", 404,
                                                        "Test not found"))
                  /\ UNCHANGED procs
             ELSE IF active_tests[tid].process = 0
             THEN /\ stops' = Append(stops, StopRequest(tid, 0, "refused", 404,
                                                        "Process not found"))
                  /\ UNCHANGED procs
             ELSE /\ procs' = [procs EXCEPT ![active_tests[tid].process] = Terminate(@)]
                  /\ stops' = Append(stops, StopRequest(tid, active_tests[tid].process,
                                                        "sleeping", 0, "none"))
    /\ UNCHANGED <<layer, active_tests, workers, gui, queue, events>>
    /\ UNCHANGED report_vars
    /\ UNCHANGED request_vars

\* after time.sleep(0.5): kill if poll() is None; emit test_finished
\* (success False, 'Test was stopped by user')
ApiTestStopAfterGrace ==
    \E s \in 1..Len(stops) :
        /\ stops[s].pc = "sleeping"
        /\ procs' = [procs EXCEPT ![stops[s].process] = KillAfterGrace(@)]
        /\ events' = Emit(stops[s].process, Finished(stops[s].process, FALSE, "stop"))
        /\ stops' = [stops EXCEPT ![s].pc = "emitted"]
        /\ UNCHANGED <<layer, active_tests, workers, gui, queue>>
        /\ UNCHANGED report_vars
        /\ UNCHANGED request_vars

\* "del active_tests[test_id]; return jsonify(success)": 500 on KeyError
ApiTestStopReturn ==
    \E s \in 1..Len(stops) :
        /\ stops[s].pc = "emitted"
        /\ active_tests' = Drop(active_tests, stops[s].test_id)
        /\ stops' = [stops EXCEPT ![s].pc = "returned",
                                  ![s].status = IF stops[s].test_id \in DOMAIN active_tests
                                                THEN 200 ELSE 500]
        /\ UNCHANGED <<layer, workers, procs, gui, queue, events>>
        /\ UNCHANGED report_vars
        /\ UNCHANGED request_vars

(* nvme_stress_gui.py *)

\* start_test from the Start button (which must be enabled), with a device
\* selected: a mounted device without auto_unmount, a failed unmount and a
\* missing test script each end in a message box; else disable Start,
\* enable Stop, start the timer and a WorkerThread
StartTest ==
    /\ layer = "desktop"
    /\ gui.busy = "idle"
    /\ gui.start_enabled
    /\ requests # <<>>
    /\ Len(workers) < MaxTests
    /\ requests' = Tail(requests)
    /\ LET req == Head(requests)
       IN \E k \in 0..Len(mounts), script \in BOOLEAN :
             IF CheckIfMounted(req.device) /\ ~req.auto_unmount
             THEN /\ k = 0 /\ script
                  /\ replies' = Append(replies, Reply("critical", 0, "Device is mounted"))
                  /\ UNCHANGED <<mounts, workers, procs, gui, events>>
             ELSE /\ mounts' = SubSeq(mounts, k + 1, Len(mounts))
                  /\ IF UnmountFailed(k, Len(mounts))
                     THEN /\ script
                          /\ replies' = Append(replies,
                                 Reply("critical", 0, "Failed to unmount"))
                          /\ UNCHANGED <<workers, procs, gui, events>>
                     ELSE IF ~script
                     THEN /\ replies' = Append(replies,
                                 Reply("critical", 0, "Test script not found"))
                          /\ UNCHANGED <<workers, procs, gui, events>>
                     ELSE /\ workers' = Append(workers,
                                 Worker(TestId(0, req.device), req.device))
                          /\ procs' = Append(procs, NoProc)
                          /\ gui' = [gui EXCEPT !.start_enabled = FALSE,
                                                !.stop_enabled = TRUE,
                                                !.status_label = "Starting test",
                                                !.timer = TRUE,
                                                !.test_duration = req.duration,
                                                !.worker_thread = Len(workers) + 1]
                          /\ events' = Append(events, <<>>)
                          /\ UNCHANGED replies
    /\ UNCHANGED <<layer, active_tests, stops, queue>>
    /\ UNCHANGED report_vars

\* WorkerThread.run up to the read loop: Popen raises (finished_signal with
\* False from the except clause) or the child is launched
WorkerThreadBegin ==
    \E r \in 1..Len(workers), launched \in BOOLEAN :
        /\ layer = "desktop"
        /\ workers[r].pc = "spawned"
        /\ IF launched
           THEN /\ procs' = [procs EXCEPT ![r] = Popen]
                /\ workers' = [workers EXCEPT ![r].pc = "reading", ![r].process = TRUE]
                /\ UNCHANGED queue
           ELSE /\ queue' = Append(queue, Finished(r, FALSE, "worker"))
                /\ workers' = [workers EXCEPT ![r].pc = "done"]
                /\ UNCHANGED procs
        /\ UNCHANGED <<layer, active_tests, stops, gui, events>>
        /\ UNCHANGED report_vars
        /\ UNCHANGED request_vars

\* one turn of the read loop: update_signal.emit(line)
WorkerThreadRead ==
    \E r \in 1..Len(workers) :
        /\ layer = "desktop"
        /\ workers[r].pc = "reading"
        /\ workers[r].read < procs[r].out
        /\ workers' = [workers EXCEPT ![r].read = @ + 1]
        /\ queue' = Append(queue, Output(r, workers[r].read + 1))
        /\ UNCHANGED <<layer, active_tests, procs, stops, gui, events>>
        /\ UNCHANGED report_vars
        /\ UNCHANGED request_vars

\* end of file on the pipe: return_code = self.process.wait()
WorkerThreadWait ==
    \E r \in 1..Len(workers) :
        /\ layer = "desktop"
        /\ workers[r].pc = "reading"
        /\ workers[r].read = procs[r].out
        /\ procs[r].state = "exited"
        /\ workers' = [workers EXCEPT ![r].pc = "waited", ![r].rc = procs[r].code]
        /\ UNCHANGED <<layer, active_tests, procs, stops, gui, queue, events>>
        /\ UNCHANGED report_vars
        /\ UNCHANGED request_vars

\* "if self.killed: emit(False) elif return_code == 0: emit(True) else: emit(False)"
WorkerThreadFinish ==
    \E r \in 1..Len(workers) :
        /\ layer = "desktop"
        /\ workers[r].pc = "waited"
        /\ queue' = Append(queue, IF workers[r].killed THEN Cancelled(r)
                                   ELSE Finished(r, workers[r].rc = 0, "worker"))
        /\ workers' = [workers EXCEPT ![r].pc = "done"]
        /\ UNCHANGED <<layer, active_tests, procs, stops, gui, events>>
        /\ UNCHANGED report_vars
        /\ UNCHANGED request_vars

\* the GUI thread runs the slot of the oldest queued signal: update_output,
\* or test_finished (which stops the timer, shows the message, enables Start
\* and disables Stop)
DeliverSignal ==
    /\ layer = "desktop"
    /\ gui.busy \in {"idle", "dialog"}
    /\ queue # <<>>
    /\ events' = Emit(Head(queue).run, Head(queue))
    /\ queue' = Tail(queue)
    /\ gui' = IF Head(queue).type = "finished"
              THEN [gui EXCEPT !.start_enabled = TRUE, !.stop_enabled = FALSE,
                               !.timer = FALSE, !.status_label = Head(queue).message,
                               !.progress_bar = IF Head(queue).success THEN 100 ELSE 0]
              ELSE gui
    /\ UNCHANGED <<layer, active_tests, workers, procs, stops>>
    /\ UNCHANGED report_vars
    /\ UNCHANGED request_vars

\* stop_test from the Stop button: "if self.worker_thread and
\* self.worker_thread.isRunning()" opens the confirmation dialog
StopTestAsk ==
    /\ layer = "desktop"
    /\ gui.busy = "idle"
    /\ gui.stop_enabled
    /\ gui.worker_thread # 0
    /\ workers[gui.worker_thread].pc # "done"
    /\ gui' = [gui EXCEPT !.busy = "dialog"]
    /\ UNCHANGED <<layer, active_tests, workers, procs, stops, queue, events>>
    /\ UNCHANGED report_vars
    /\ UNCHANGED request_vars

\* the operator answers No
StopTestNo ==
    /\ layer = "desktop"
    /\ gui.busy = "dialog"
    /\ gui' = [gui EXCEPT !.busy = "idle"]
    /\ UNCHANGED <<layer, active_tests, workers, procs, stops, queue, events>>
    /\ UNCHANGED report_vars
    /\ UNCHANGED request_vars

\* the operator answers Yes: WorkerThread.kill() up to its sleep ("if
\* self.process: self.killed = True; self.process.terminate()"); without a
\* process kill() returns at once and stop_test shows "Stopping test..."
StopTestYes ==
    /\ layer = "desktop"
    /\ gui.busy = "dialog"
    /\ LET w == gui.worker_thread
       IN IF workers[w].process
          THEN /\ workers' = [workers EXCEPT ![w].killed = TRUE]
               /\ procs' = [procs EXCEPT ![w] = Terminate(@)]
               /\ gui' = [gui EXCEPT !.busy = "sleeping"]
          ELSE /\ gui' = [gui EXCEPT !.busy = "idle", !.status_label = "Stopping test..."]
               /\ UNCHANGED <<workers, procs>>
    /\ UNCHANGED <<layer, active_tests, stops, queue, events>>
    /\ UNCHANGED report_vars
    /\ UNCHANGED request_vars

\* WorkerThread.kill() after time.sleep(0.5): kill if poll() is None; back in
\* stop_test, the label shows "Stopping test..."
WorkerThreadKillAfterGrace ==
    /\ layer = "desktop"
    /\ gui.busy = "sleeping"
    /\ procs' = [procs EXCEPT ![gui.worker_thread] = KillAfterGrace(@)]
    /\ gui' = [gui EXCEPT !.busy = "idle", !.status_label = "Stopping test..."]
    /\ UNCHANGED <<layer, active_tests, workers, stops, queue, events>>
    /\ UNCHANGED report_vars
    /\ UNCHANGED request_vars

RunnerNext ==
    \/ ChildWrites \/ ChildExits
    \/ ApiTestStart \/ RunStressTestBegin \/ RunStressTestRead
    \/ RunStressTestFinish \/ RunStressTestCleanup
    \/ ApiTestStop \/ ApiTestStopAfterGrace \/ ApiTestStopReturn
    \/ StartTest \/ WorkerThreadBegin \/ WorkerThreadRead
    \/ WorkerThreadWait \/ WorkerThreadFinish \/ DeliverSignal
    \/ StopTestAsk \/ StopTestNo \/ StopTestYes \/ WorkerThreadKillAfterGrace

SpecRunner == RunnerInit /\ [][RunnerNext]_vars

-----------------------------------------------------------------------------
(* Start requests on a mounted device, and the progress of a test *)

\* int(x / y) of Python: the quotient, rounded toward zero
TruncDiv(x, y) ==
    LET ax == IF x < 0 THEN 0 - x ELSE x
        ay == IF y < 0 THEN 0 - y ELSE y
    IN IF (x < 0) = (y < 0) THEN ax \div ay ELSE 0 - (ax \div ay)

\* min(int((elapsed / duration) * 100), 100) and max(0, duration - elapsed)
Progress(elapsed, duration) == Min({TruncDiv(elapsed * 100, duration), 100})

Remaining(elapsed, duration) == Max({0, duration - elapsed})

\* api_test_status(test_id), elapsed seconds after start_time: running False
\* for a test_id that is not in active_tests; the division by a duration of
\* 0 raises ZeroDivisionError, which the server answers with status 500
StatusReply(tid, elapsed) ==
    IF tid \notin DOMAIN active_tests THEN Reply("status", 200, "ok")
    ELSE IF active_tests[tid].duration = 0
    THEN Reply("status", 500, "ZeroDivisionError")
    ELSE [ Reply("status", 200, "ok") EXCEPT
             !.running = TRUE,
             !.progress = Progress(elapsed, active_tests[tid].duration),
             !.remaining = Remaining(elapsed, active_tests[tid].duration) ]

Polls == Cardinality({i \in 1..Len(replies) : replies[i].kind = "status"})

\* GET /api/test/<test_id>/status for a test_id a start request has given out
ApiTestStatus ==
    /\ layer = "web"
    /\ Polls < MaxPolls
    /\ \E r \in 1..Len(workers), elapsed \in 0..MaxElapsed :
          replies' = Append(replies, StatusReply(workers[r].test_id, elapsed))
    /\ UNCHANGED <<mounts, requests>>
    /\ UNCHANGED runner_vars
    /\ UNCHANGED report_vars

\* update_progress, the slot of the one-second timer: nothing for a duration
\* <= 0, else the bar is set to the progress
UpdateProgress ==
    /\ layer = "desktop"
    /\ gui.timer
    /\ gui.busy = "idle"
    /\ calls < MaxPolls
    /\ calls' = calls + 1
    /\ \E elapsed \in 0..MaxElapsed :
          gui' = IF gui.test_duration <= 0 THEN gui
                 ELSE [gui EXCEPT !.progress_bar = Progress(elapsed, gui.test_duration)]
    /\ UNCHANGED <<layer, active_tests, workers, procs, stops, queue, events>>
    /\ UNCHANGED <<log_files, artifacts, sysfs, data, drives_data, report, pcie, printed, pc>>
    /\ UNCHANGED request_vars

\* the partitions of the device that can be mounted
Partitions == {"/dev/nvme0n1p1", "/dev/nvme0n1p2"}

\* the durations a request can carry: any integer on the web
\* (int(data.get('duration', 600))), the range of the spin box on the desktop
Durations(l) == IF l = "web" THEN (0 - 1)..MaxDuration ELSE 1..MaxDuration

StartRequests(l) ==
    { StartRequest(d, n, a) : d \in Devices, n \in Durations(l), a \in BOOLEAN }

RequestsInit ==
    /\ layer \in {"web", "desktop"}
    /\ gui = IF layer = "desktop" THEN Window ELSE NoGui
    /\ active_tests = <<>>
    /\ workers = <<>>
    /\ procs = <<>>
    /\ stops = <<>>
    /\ queue = <<>>
    /\ events = <<>>
    /\ mounts \in BoundedSeq(Partitions, MaxParts)
    /\ requests \in BoundedSeq(StartRequests(layer), MaxTests)
    /\ replies = <<>>
    /\ log_files = <<>>
    /\ artifacts = NoArtifacts
    /\ sysfs = NoSysfs
    /\ data = NoParser
    /\ drives_data = <<>>
    /\ report = NoReport
    /\ pcie = NoValue
    /\ printed = <<>>
    /\ calls = 0
    /\ pc = "requests"

RequestsNext == ApiTestStart \/ StartTest \/ ApiTestStatus \/ UpdateProgress

SpecRequests == RequestsInit /\ [][RequestsNext]_vars

-----------------------------------------------------------------------------
(* Claims about the requests (SpecRequests) *)

\* an answer that reports an error
ErrorReply(r) == r.kind = "critical" \/ r.status \in {400, 500}

\* in this step the request got an error answer and no test was started
Refused ==
    /\ Len(replies') = Len(replies) + 1
    /\ ErrorReply(replies'[Len(replies')])
    /\ active_tests' = active_tests
    /\ workers' = workers
    /\ procs' = procs
    /\ gui' = gui

C26_ProgressInRange ==
    /\ \A i \in 1..Len(replies) :
          replies[i].kind = "status" =>
             /\ replies[i].status = 200
             /\ replies[i].progress \in 0..100
             /\ replies[i].remaining >= 0
    /\ gui.progress_bar \in 0..100

-----------------------------------------------------------------------------
(* Claims about the test runners (SpecRunner) *)

Runs == 1..Len(workers)

\* a terminal event: test_finished / finished_signal, or test_error
Terminal(e) == e.type \in {"finished", "error"}

TerminalAt(r) == {i \in 1..Len(events[r]) : Terminal(events[r][i])}

OutputAt(r) == {i \in 1..Len(events[r]) : events[r][i].type = "output"}

\* the worker of run r has returned and none of its signals is still queued
RunOver(r) ==
    /\ workers[r].pc = "done"
    /\ \A i \in 1..Len(queue) : queue[i].run # r
    /\ \A s \in 1..Len(stops) : stops[s].process = r => stops[s].pc = "returned"

\* C12: every started run signals exactly one terminal event to the listener:
\* never more than one, and one once the run is over, whatever the order of a
\* stop request and the child's exit, on the desktop and on the web.
C12_ExactlyOneTerminal ==
    \A r \in Runs :
        /\ Cardinality(TerminalAt(r)) <= 1
        /\ RunOver(r) => Cardinality(TerminalAt(r)) = 1

\* C13: within a run the output lines reach the listener in the order the
\* child wrote them and all of them before the run's terminal event; no
\* output line follows the terminal event.
C13_OutputBeforeTerminal ==
    \A r \in Runs :
        /\ \A i \in OutputAt(r), j \in OutputAt(r) :
              i < j => events[r][i].n < events[r][j].n
        /\ \A i \in TerminalAt(r), j \in OutputAt(r) : j < i
        /\ (TerminalAt(r) # {} /\ procs[r].state = "exited")
              => Cardinality(OutputAt(r)) = procs[r].out

\* the cancel operations that have passed their grace period
StopsPastGrace == {s \in 1..Len(stops) : stops[s].pc \in {"emitted", "returned"}}

\* run r was cancelled on the desktop and kill() has returned
KillReturned(r) ==
    workers[r].killed /\ ~(gui.busy = "sleeping" /\ gui.worker_thread = r)

CancelRequested(r) ==
    \/ workers[r].killed
    \/ procs[r].term
    \/ \E s \in 1..Len(stops) : stops[s].process = r

\* C15: a terminal event of a run whose child has exited reports success only
\* if the exit code is 0 and the run was not cancelled, and reports failure
\* only if the exit code is not 0 or a cancel was requested; a non-zero exit
\* never gives success; the child of a run is launched at most once.
C15_SuccessIffCleanExit ==
    \A r \in Runs :
        /\ \A i \in 1..Len(events[r]) :
              events[r][i].type = "finished" /\ procs[r].state = "exited" =>
                 /\ events[r][i].success => procs[r].code = 0 /\ ~procs[r].term
                 /\ ~events[r][i].success => procs[r].code # 0 \/ CancelRequested(r)
        /\ procs[r].state # "none" => workers[r].process

\* C16: no two children run at the same time on the same device.
C16_OneTestPerDevice ==
    \A r1 \in Runs, r2 \in Runs :
        ( /\ r1 # r2
          /\ workers[r1].device = workers[r2].device
          /\ procs[r1].state = "running" )
            => procs[r2].state # "running"

\* the stop requests that have been answered
StopsAnswered == {s \in 1..Len(stops) : stops[s].pc \in {"refused", "returned"}}

\* C22: once a stop request for a test_id that was in active_tests has been
\* answered, no test registered under that test_id before the request has a
\* running child or is yet to launch one, also when the request came before
\* the worker thread stored the process.
C22_StopTerminatesRegistered ==
    \A s \in StopsAnswered :
        stops[s].error # "Test not found" =>
            \A r \in Runs :
                (workers[r].test_id = stops[s].test_id /\ r <= stops[s].seen)
                    => procs[r].state # "running"

\* C23: a stop request that found the process and terminated it answers with
\* success (200) under every interleaving with the worker thread: the entry
\* is removed once and the handler's own removal does not fail.
C23_StopAnswersSuccess ==
    \A s \in 1..Len(stops) : stops[s].pc = "returned" => stops[s].status = 200

\* api_test_status: "if test_id not in active_tests: running False"
StatusRunning(tid) == tid \in DOMAIN active_tests

\* every test registered under the test_id of run r has ended
AllOver(tid) == \A r \in Runs : workers[r].test_id = tid => RunOver(r)

\* C24: once the run of a registered test has ended, by the child's exit, a
\* stop, a failed launch or a missing script, and its terminal or error
\* event is out, the test is no longer in active_tests and api_test_status
\* answers running: false for its test_id.
C24_EndedTestUnregistered ==
    \A r \in Runs :
        (RunOver(r) /\ TerminalAt(r) # {} /\ AllOver(workers[r].test_id))
            => ~StatusRunning(workers[r].test_id)

\* C30: a start request is given a test_id that is not in active_tests, so
\* that registering it never replaces the entry of a test that is still
\* running: as long as a child whose process was stored is running, the
\* entry of its test_id is there and holds that process, which is what stop
\* and status reach it by.
C30_RunningTestReachable ==
    \A r \in Runs :
        (layer = "web" /\ workers[r].pc = "reading" /\ procs[r].state = "running")
            => /\ workers[r].test_id \in DOMAIN active_tests
               /\ active_tests[workers[r].test_id].process = r

\* the finished signals of run r that the window has received
FinishedAt(r) == {i \in 1..Len(events[r]) : events[r][i].type = "finished"}

\* C28: on the desktop a run is reported as cancelled exactly when kill()
\* signalled its running child: a child that exited by itself with code 0,
\* never signalled, is reported as success whenever kill() was called, and
\* a kill() is not lost: once stop_test has returned from it ("Stopping
\* test...") the child of the worker thread is not running.
C28_CancelledIffKilled ==
    layer = "desktop" =>
        /\ \A r \in Runs : \A i \in FinishedAt(r) :
              /\ events[r][i].message = "Test was cancelled" <=> procs[r].term
              /\ (procs[r].code = 0 /\ ~procs[r].term /\ workers[r].process)
                    => events[r][i].success
        /\ (gui.status_label = "Stopping test..." /\ gui.busy = "idle")
              => procs[gui.worker_thread].state # "running"

-----------------------------------------------------------------------------
(* Generating the report again from the same records *)

MaxRenders == 2

\* a passed device, a failed one, and one with peak fields
RegenerateRecords ==
    { [NewParserData(File(Stem1, TRUE, <<>>)) EXCEPT !.health_status = Passed],
      [NewParserData(File(Stem0, TRUE, <<>>)) EXCEPT !.health_status = <<"FAILED!">>,
                                                     !.errors = 2],
      [peak_read_bw |-> PeakText(3000)]
        @@ [NewParserData(File(Stem10, TRUE, <<>>)) EXCEPT !.health_status = Passed] }

RegenerateSysfs ==
    ReportSysfs \cup { Sysfs(TRUE, FALSE, <<>>, FALSE, <<>>) }

RegenerateInit ==
    /\ drives_data \in BoundedSeq(RegenerateRecords, MaxDrives)
    /\ sysfs \in RegenerateSysfs
    /\ report \in {NoReport, OldReport}
    /\ log_files = <<>>
    /\ artifacts = NoArtifacts
    /\ data = NoParser
    /\ pcie = NoValue
    /\ printed = <<>>
    /\ calls = 0
    /\ pc = "generate"
    /\ RunnerIdle

\* generate_html_report(drives_data, output_file), once more
RegeneratePlain ==
    /\ pc \in {"generate", "generated"}
    /\ calls < MaxRenders
    /\ pcie' = GetPcieInfo(sysfs)
    /\ \E now \in Clock :
          report' = GenerateHtmlReport(drives_data, GetPcieInfo(sysfs), now)
    /\ printed' = Append(printed, <<"Report generated successfully">>)
    /\ calls' = calls + 1
    /\ pc' = "generated"
    /\ UNCHANGED <<log_files, artifacts, sysfs, data, drives_data>>
    /\ UNCHANGED runner_vars
    /\ UNCHANGED request_vars

\* generate_html_report_with_peak(drives_data, output_file), once more
RegeneratePeak ==
    /\ pc \in {"generate", "generated"}
    /\ calls < MaxRenders
    /\ pcie' = GetPcieInfo(sysfs)
    /\ \E now \in Clock :
          report' = GenerateHtmlReportWithPeak(drives_data, GetPcieInfo(sysfs), now)
    /\ printed' = Append(printed, <<"Report updated successfully">>)
    /\ calls' = calls + 1
    /\ pc' = "generated"
    /\ UNCHANGED <<log_files, artifacts, sysfs, data, drives_data>>
    /\ UNCHANGED runner_vars
    /\ UNCHANGED request_vars

RegenerateNext == RegeneratePlain \/ RegeneratePeak

SpecRegenerate == RegenerateInit /\ [][RegenerateNext]_vars

\* the document without its generation timestamp
Unstamped(doc) == [f \in DOMAIN doc \ {"current_time"} |-> doc[f]]

\* the document is one a generator wrote
IsDocument(doc) == "cards" \in DOMAIN doc

-----------------------------------------------------------------------------
(* generate_report.main on a log of temperature readings *)

\* the SMART temperature lines of a log, and the marker
SensorLines ==
    { Line("Temperature", <<"55">>, 0),
      Line("Temperature Sensor", <<"50">>, 1),
      Line("Temperature Sensor", <<"60">>, 2),
      Marker }

SensorFiles ==
    { File(st, TRUE, c) : st \in Stems, c \in BoundedSeq(SensorLines, MaxSensorLines) }

SensorsInit ==
    /\ log_files \in BoundedSeq(SensorFiles, 1)
    /\ artifacts = NoArtifacts
    /\ sysfs \in ReportSysfs
    /\ data = NoParser
    /\ drives_data = <<>>
    /\ report \in {NoReport, OldReport}
    /\ pcie = NoValue
    /\ printed = <<>>
    /\ calls = 0
    /\ pc = "main"
    /\ RunnerIdle

SpecSensors == SensorsInit /\ [][MainNext]_vars

-----------------------------------------------------------------------------
(* Claims about the sensor temperatures (SpecSensors) *)

\* the positions of the sensor lines after the last marker of a text, and the
\* i-th of a set of positions in ascending order
SensorsAfter(text) ==
    LET markers == {i \in 1..Len(text) : text[i] = Marker}
    IN IF markers = {} THEN {}
       ELSE {i \in (Max(markers) + 1)..Len(text) : text[i].k = "Temperature Sensor"}

NthOf(P, i) == CHOOSE p \in P : Cardinality({q \in P : q < p}) = i - 1

\* C20: temp_sensors_after holds one ('Sensor N', value) pair for every
\* sensor line after the last marker, in the order of the lines, none from
\* before the marker and none when there is no marker; the card of the drive
\* shows the before and the after temperature and then the pairs in that
\* same order.
C20_SensorsInEncounterOrder ==
    /\ \A d \in 1..Len(drives_data) :
          LET text == log_files[d].content
              hits == SensorsAfter(text)
              pairs == drives_data[d].temp_sensors_after
          IN /\ Len(pairs) = Cardinality(hits)
             /\ \A i \in 1..Len(pairs) :
                   pairs[i] = << <<"Sensor ", text[NthOf(hits, i)].n>>,
                                 text[NthOf(hits, i)].v >>
    /\ (pc = "exit" /\ log_files # <<>>) =>
          /\ Len(report.cards) = 1
          /\ report.cards[1].temps
                = << << <<"Before Test">>, drives_data[1].temp_before >>,
                     << <<"After Test">>, drives_data[1].temp_after >> >>
                    \o drives_data[1].temp_sensors_after

C20_Witness ==
    /\ pc = "exit"
    /\ Len(log_files) = 1
    /\ log_files[1].content
          = << Line("Temperature Sensor", <<"50">>, 1), Marker,
               Line("Temperature Sensor", <<"60">>, 2),
               Line("Temperature Sensor", <<"50">>, 1) >>
    /\ report.cards[1].temps
          = << << <<"Before Test">>, Unknown >>, << <<"After Test">>, Unknown >>,
               << <<"Sensor ", 2>>, <<"60">> >>, << <<"Sensor ", 1>>, <<"50">> >> >>

-----------------------------------------------------------------------------
(* web_app.api_report_generate, which runs the report program *)

GenerateInit ==
    /\ \E n \in 0..MaxFiles :
          /\ n <= Len(StemsInOrder)
          /\ log_files = [i \in 1..n |-> File(StemsInOrder[i], TRUE, PeakLog)]
          /\ artifacts \in PeakArtifacts(n)
    /\ sysfs \in ReportSysfs
    /\ data = NoParser
    /\ drives_data = <<>>
    /\ report \in {NoReport, OldReport}
    /\ pcie = NoValue
    /\ printed = <<>>
    /\ calls = 0
    /\ pc = "api"
    /\ RunnerIdle

\* api_report_generate up to subprocess.run: 404 when neither report program
\* is there, else update_report_with_peak_perf.py is started
ApiReportGenerate ==
    /\ pc = "api"
    /\ \E found \in BOOLEAN :
          IF found
          THEN /\ pc' = "peak_main"
               /\ UNCHANGED replies
          ELSE /\ pc' = "replied"
               /\ replies' = Append(replies,
                      Reply("generate", 404, "Report generator not found"))
    /\ UNCHANGED <<log_files, artifacts, sysfs, data, drives_data, report, pcie,
                   printed, calls>>
    /\ UNCHANGED <<mounts, requests>>
    /\ UNCHANGED runner_vars

\* the report program ends with an error before it has written the report
\* (subprocess.run is called without check: its return code is not looked at)
GeneratorFails ==
    /\ pc \in {"peak_main", "peak_loop"}
    /\ pc' = "peak_exit"
    /\ printed' = Append(printed, <<"Traceback">>)
    /\ UNCHANGED <<log_files, artifacts, sysfs, data, drives_data, report, pcie, calls>>
    /\ UNCHANGED runner_vars
    /\ UNCHANGED request_vars

\* timeout=30 passes before the report program has ended: TimeoutExpired,
\* caught by "except Exception" and answered with 500
ApiReportGenerateTimeout ==
    /\ pc \in {"peak_main", "peak_loop"}
    /\ pc' = "replied"
    /\ replies' = Append(replies, Reply("generate", 500, "TimeoutExpired"))
    /\ UNCHANGED <<log_files, artifacts, sysfs, data, drives_data, report, pcie,
                   printed, calls>>
    /\ UNCHANGED <<mounts, requests>>
    /\ UNCHANGED runner_vars

\* after subprocess.run has returned: "if report_file.exists()" answers
\* success, else 500 'Report file was not created'
ApiReportGenerateReturn ==
    /\ pc = "peak_exit"
    /\ pc' = "replied"
    /\ replies' = Append(replies,
           IF report # NoReport
           THEN Reply("generate", 200, "Report generated successfully")
           ELSE Reply("generate", 500, "Report file was not created"))
    /\ UNCHANGED <<log_files, artifacts, sysfs, data, drives_data, report, pcie,
                   printed, calls>>
    /\ UNCHANGED <<mounts, requests>>
    /\ UNCHANGED runner_vars

GenerateNext ==
    \/ ApiReportGenerate \/ PeakMainNext \/ GeneratorFails
    \/ ApiReportGenerateTimeout \/ ApiReportGenerateReturn

SpecGenerate == GenerateInit /\ [][GenerateNext]_vars

-----------------------------------------------------------------------------
(* Claims about api_report_generate (SpecGenerate) *)

\* C29: api_report_generate answers success only if the run of the report
\* program it started wrote the report: after a run that failed, timed out
\* or found no log files, the report of an earlier generation (or none) is
\* not answered with success.
C29_SuccessOnlyForNewReport ==
    (pc = "replied" /\ replies[Len(replies)].status = 200)
        => report \notin {NoReport, OldReport}


====
